---- MODULE Spec2Model ----
(***************************************************************************)
(* Reality Check: the record store's claim/source/prediction operations    *)
(* (scripts/db.py), the database validator (scripts/validate.py) and the   *)
(* analysis-document validator (scripts/analysis_validator.py).            *)
(*                                                                         *)
(* Text is modelled as a sequence of one-character strings, so that the    *)
(* regular expressions, strip(), split() and the wrapper stripping of the  *)
(* source are computed character by character.  A table of the store is a  *)
(* sequence of rows in insertion order.  Credences are hundredths.         *)
(***************************************************************************)
EXTENDS Integers, Sequences, FiniteSets, TLC

VARIABLES
    claims,         \* rows of table "claims"
    sources,        \* rows of table "sources"
    chains,         \* rows of table "chains"
    predictions,    \* rows of table "predictions"
    last,           \* the last store operation and what it returned
    doc,            \* the analysis document under validation (its lines)
    docPath,        \* the path of that document
    profile,        \* the profile argument of validate_file ("none" = not given)
    result,         \* rigor flag -> ValidationResult of validate_file, once run
    factual,        \* what validate_factual_verification_rigor returned, once run
    analysis_logs,  \* the analysis_logs table: a sequence of log records
    tables,         \* the names of the tables the store holds
    env,            \* what validate_db resolves the store location from
    extraction,     \* a table cell and what extract_claim_id returned for it
    repo_root       \* the legacy YAML files under repo_root

vars == <<claims, sources, chains, predictions, last, doc, docPath, profile, result, factual,
          analysis_logs, tables, env, extraction, repo_root>>
dbVars == <<claims, sources, chains, predictions, last, analysis_logs, tables, env>>
docVars == <<doc, docPath, profile, result, factual, extraction, repo_root>>

(***************************************************************************)
(* Bounds of the model.                                                    *)
(***************************************************************************)
MaxVersion == 2      \* update_claim is explored up to this claim version
MaxRows == 2         \* rows per store table in the operation specifications

(***************************************************************************)
(* Characters and text helpers.                                            *)
(***************************************************************************)
UpperSeq == <<"A","B","C","D","E","F","G","H","I","J","K","L","M",
              "N","O","P","Q","R","S","T","U","V","W","X","Y","Z">>
LowerSeq == <<"a","b","c","d","e","f","g","h","i","j","k","l","m",
              "n","o","p","q","r","s","t","u","v","w","x","y","z">>
Upper == {UpperSeq[i] : i \in 1..26}
Digit == {"0","1","2","3","4","5","6","7","8","9"}
Space == {" ", "\t"}

Lower == {LowerSeq[i] : i \in 1..26}
LowerOf == [ch \in Upper |-> LowerSeq[CHOOSE i \in 1..26 : UpperSeq[i] = ch]]
UpperOf == [ch \in Lower |-> UpperSeq[CHOOSE i \in 1..26 : LowerSeq[i] = ch]]
ToLower(ch) == IF ch \in Upper THEN LowerOf[ch] ELSE ch
ToUpper(ch) == IF ch \in Lower THEN UpperOf[ch] ELSE ch
LowerStr(s) == [i \in 1..Len(s) |-> ToLower(s[i])]
UpperStr(s) == [i \in 1..Len(s) |-> ToUpper(s[i])]

InSeq(x, s) == \E i \in 1..Len(s) : s[i] = x
SeqSet(s) == {s[i] : i \in 1..Len(s)}
AllIn(s, from, to, set) == \A i \in from..to : s[i] \in set

RECURSIVE Concat(_)
Concat(ss) == IF ss = <<>> THEN <<>> ELSE Head(ss) \o Concat(Tail(ss))

\* str.strip()
RECURSIVE LStrip(_)
LStrip(s) == IF s # <<>> /\ s[1] \in Space THEN LStrip(Tail(s)) ELSE s
RECURSIVE RStrip(_)
RStrip(s) == IF s # <<>> /\ s[Len(s)] \in Space
             THEN RStrip(SubSeq(s, 1, Len(s) - 1))
             ELSE s
Strip(s) == RStrip(LStrip(s))

StartsWith(s, m) == Len(s) >= Len(m) /\ SubSeq(s, 1, Len(m)) = m
EndsWith(s, m) == Len(s) >= Len(m) /\ SubSeq(s, Len(s) - Len(m) + 1, Len(s)) = m

\* str.split("-")[0]
SplitFirst(s, sep) ==
    IF InSeq(sep, s)
    THEN SubSeq(s, 1, (CHOOSE i \in 1..Len(s) :
                          s[i] = sep /\ \A j \in 1..(i-1) : s[j] # sep) - 1)
    ELSE s

\* the pattern [A-Z]+-\d{4}-\d{3} against the whole of s
IsIdPattern(s) ==
    \E k \in 1..Len(s) :
        /\ Len(s) = k + 9
        /\ AllIn(s, 1, k, Upper)
        /\ s[k+1] = "-"
        /\ AllIn(s, k+2, k+5, Digit)
        /\ s[k+6] = "-"
        /\ AllIn(s, k+7, k+9, Digit)

(***************************************************************************)
(* scripts/validate.py: patterns and allowed values.                       *)
(***************************************************************************)
CLAIM_ID_RE(s) == IsIdPattern(s)
CHAIN_ID_RE(s) == IsIdPattern(s) /\ SplitFirst(s, "-") = <<"C","H","A","I","N">>

ALLOWED_CLAIM_TYPES == {"[F]", "[T]", "[H]", "[P]", "[A]", "[C]", "[S]", "[X]"}
ALLOWED_EVIDENCE_LEVELS == {"E1", "E2", "E3", "E4", "E5", "E6"}
ALLOWED_PREDICTION_STATUSES ==
    {"[P+]", "[P~]", "[P->]", "[P?]", "[P<-]", "[P!]", "[P-]", "[P0]"}
ALLOWED_SOURCE_TYPES == {"PAPER", "BOOK", "REPORT", "ARTICLE", "BLOG", "SOCIAL",
                         "CONVO", "INTERVIEW", "DATA", "FICTION", "KNOWLEDGE"}
VALID_DOMAINS ==
    { <<"L","A","B","O","R">>, <<"E","C","O","N">>, <<"G","O","V">>,
      <<"T","E","C","H">>, <<"S","O","C">>, <<"R","E","S","O","U","R","C","E">>,
      <<"T","R","A","N","S">>, <<"M","E","T","A">>, <<"G","E","O">>,
      <<"I","N","S","T">>, <<"R","I","S","K">> }

Finding_Error(level, code, message) == [level |-> "ERROR", code |-> code, message |-> message]
Finding(level, code, message) == [level |-> level, code |-> code, message |-> message]

\* Python's None in a numeric field
None == -1000

\* credences are stored as float32; the model writes them in hundredths (0.3 is 30)
_is_probability(value) == value # None /\ 0 <= value /\ value <= 100

\* the float32 nearest to h/100 (ties to even), in units of 2^-30: for 1 <= h < 200
\* the float32 has a binary exponent of at least -7 and 23 fraction bits, so it is
\* a whole number of such units
Float32(h) ==
    IF h = 0 THEN 0
    ELSE LET k == CHOOSE j \in 0..7 : 100 <= h * 2^j /\ h * 2^j < 200
             n == (h * 2^k) * 2^23
             q == n \div 100
             r == n % 100
             mantissa == IF r > 50 \/ (r = 50 /\ q % 2 = 1) THEN q + 1 ELSE q
         IN  mantissa * 2^(7 - k)

\* the double 0.01 lies strictly between 10737418 and 10737419 units of 2^-30
HUNDREDTH == 10737418

(***************************************************************************)
(* Table helpers: rows are records with an id (claims, sources, chains) or *)
(* a claim_id (predictions).                                               *)
(***************************************************************************)
HasId(tbl, id) == \E i \in 1..Len(tbl) : tbl[i].id = id
\* table.search().where("id = ...").limit(1): the first matching row
RowById(tbl, id) ==
    tbl[CHOOSE i \in 1..Len(tbl) : tbl[i].id = id /\ \A j \in 1..(i-1) : tbl[j].id # id]
DeleteById(tbl, id) == SelectSeq(tbl, LAMBDA r : r.id # id)

HasPrediction(tbl, cid) == \E i \in 1..Len(tbl) : tbl[i].claim_id = cid

\* {row[key]: row for row in rows}: keys in first-insertion order, last row wins
RowIds(tbl) == [i \in 1..Len(tbl) |-> tbl[i].id]
RECURSIVE Dedup(_)
Dedup(s) == IF s = <<>> THEN <<>>
            ELSE LET rest == Dedup(SubSeq(s, 1, Len(s) - 1))
                 IN  IF InSeq(s[Len(s)], rest) THEN rest ELSE Append(rest, s[Len(s)])
DictKeys(tbl) == Dedup(RowIds(tbl))
DictGet(tbl, id) ==
    tbl[CHOOSE i \in 1..Len(tbl) : tbl[i].id = id /\ \A j \in (i+1)..Len(tbl) : tbl[j].id # id]
PredKeys(tbl) == Dedup([i \in 1..Len(tbl) |-> tbl[i].claim_id])
PredGet(tbl, cid) ==
    tbl[CHOOSE i \in 1..Len(tbl) :
            tbl[i].claim_id = cid /\ \A j \in (i+1)..Len(tbl) : tbl[j].claim_id # cid]

(***************************************************************************)
(* scripts/db.py: the store.  A db value is the four tables; an operation  *)
(* maps a db to a db and a return value.                                   *)
(***************************************************************************)
DB == [claims |-> claims, sources |-> sources, chains |-> chains,
       predictions |-> predictions, analysis_logs |-> analysis_logs, tables |-> tables]

\* the source ids of the model, in sorted() order
SOURCE_ORDER == <<"s1", "s2", "s9">>
Sorted(set) == SelectSeq(SOURCE_ORDER, LAMBDA x : x \in set)

\* table.update(where id = source_id, values = {"claims_extracted": value})
SetClaimsExtracted(tbl, source_id, value) ==
    [i \in 1..Len(tbl) |->
        IF tbl[i].id = source_id THEN [tbl[i] EXCEPT !.claims_extracted = value]
        ELSE tbl[i]]

_upsert_source_claim_backlink(tbl, source_id, claim_id) ==
    IF ~HasId(tbl, source_id) THEN tbl
    ELSE LET claims_extracted == RowById(tbl, source_id).claims_extracted
         IN  IF InSeq(claim_id, claims_extracted) THEN tbl
             ELSE SetClaimsExtracted(tbl, source_id, Append(claims_extracted, claim_id))

\* an emptied list is written as None, which every reader takes as []
_remove_source_claim_backlink(tbl, source_id, claim_id) ==
    IF ~HasId(tbl, source_id) THEN tbl
    ELSE LET claims_extracted == RowById(tbl, source_id).claims_extracted
         IN  IF ~InSeq(claim_id, claims_extracted) THEN tbl
             ELSE SetClaimsExtracted(tbl, source_id,
                      SelectSeq(claims_extracted, LAMBDA cid : cid # claim_id))

RECURSIVE UpsertAll(_, _, _)
UpsertAll(tbl, source_ids, claim_id) ==
    IF source_ids = <<>> THEN tbl
    ELSE UpsertAll(_upsert_source_claim_backlink(tbl, Head(source_ids), claim_id),
                   Tail(source_ids), claim_id)

RECURSIVE RemoveAll(_, _, _)
RemoveAll(tbl, source_ids, claim_id) ==
    IF source_ids = <<>> THEN tbl
    ELSE RemoveAll(_remove_source_claim_backlink(tbl, Head(source_ids), claim_id),
                   Tail(source_ids), claim_id)

\* _sync_source_claim_backlinks that never removes a dropped source's backlink
_sync_source_claim_backlinks_NoRemove(tbl, claim_id, old_source_ids, new_source_ids) ==
    UpsertAll(tbl, Sorted(SeqSet(new_source_ids) \ SeqSet(old_source_ids)), claim_id)

_sync_source_claim_backlinks(tbl, claim_id, old_source_ids, new_source_ids) ==
    LET old_set == SeqSet(old_source_ids)
        new_set == SeqSet(new_source_ids)
    IN  UpsertAll(RemoveAll(tbl, Sorted(old_set \ new_set), claim_id),
                  Sorted(new_set \ old_set), claim_id)

_ensure_prediction_for_claim(tbl, claim) ==
    IF claim.type # "[P]" THEN tbl
    ELSE IF claim.id = <<>> THEN tbl
    ELSE IF HasPrediction(tbl, claim.id) THEN tbl
    ELSE IF claim.source_ids = <<>> THEN tbl
    ELSE Append(tbl, [claim_id |-> claim.id, source_id |-> claim.source_ids[1],
                      status |-> "[P?]"])

add_claim(db, claim, generate_embedding) ==
    IF claim.id # <<>> /\ HasId(db.claims, claim.id)
    THEN [db |-> db, ret |-> "ValueError"]
    ELSE LET row == [claim EXCEPT !.embedding = claim.embedding \/ generate_embedding]
         IN  [db |-> [db EXCEPT
                        !.claims = Append(db.claims, row),
                        !.sources = UpsertAll(db.sources, row.source_ids, row.id),
                        !.predictions = _ensure_prediction_for_claim(db.predictions, row)],
              ret |-> "ok"]

\* existing.update(updates)
Merge(existing, updates) ==
    [f \in DOMAIN existing |-> IF f \in DOMAIN updates THEN updates[f] ELSE existing[f]]

update_claim_NoIncrement(db, claim_id, updates) ==
    IF ~HasId(db.claims, claim_id)
    THEN [db |-> db, ret |-> "False"]
    ELSE LET existing == RowById(db.claims, claim_id)
             row == [Merge(existing, updates) EXCEPT
                        !.embedding = IF "text" \in DOMAIN updates THEN TRUE ELSE @]
         IN  [db |-> [db EXCEPT
                        !.claims = Append(DeleteById(db.claims, claim_id), row),
                        !.sources = _sync_source_claim_backlinks(db.sources, claim_id,
                                        existing.source_ids, row.source_ids),
                        !.predictions = _ensure_prediction_for_claim(db.predictions, row)],
              ret |-> "True"]
\* the version incremented is the one in the merged record
update_claim(db, claim_id, updates) ==
    IF ~HasId(db.claims, claim_id)
    THEN [db |-> db, ret |-> "False"]
    ELSE LET existing == RowById(db.claims, claim_id)
             merged == Merge(existing, updates)
             row == [merged EXCEPT
                        !.embedding = IF "text" \in DOMAIN updates THEN TRUE ELSE @,
                        !.version = merged.version + 1]
         IN  [db |-> [db EXCEPT
                        !.claims = Append(DeleteById(db.claims, claim_id), row),
                        !.sources = _sync_source_claim_backlinks(db.sources, claim_id,
                                        existing.source_ids, row.source_ids),
                        !.predictions = _ensure_prediction_for_claim(db.predictions, row)],
              ret |-> "True"]

\* merged = dict(existing); merged.update(incoming); no version increment
_replace_claim_row_for_import(db, claim_id, incoming, generate_embedding) ==
    IF ~HasId(db.claims, claim_id)
    THEN [db |-> db, ret |-> "ValueError"]
    ELSE LET existing == RowById(db.claims, claim_id)
             merged == Merge(existing, incoming)
             incoming_embedding_provided ==
                 "embedding" \in DOMAIN incoming /\ incoming.embedding
             text_changed == merged.text # existing.text
             row == [merged EXCEPT
                        !.id = claim_id,
                        !.embedding =
                            IF generate_embedding
                            THEN IF ~incoming_embedding_provided /\ (text_changed \/ ~@)
                                 THEN TRUE ELSE @
                            ELSE IF text_changed /\ ~incoming_embedding_provided
                                 THEN FALSE ELSE @]
         IN  [db |-> [db EXCEPT
                        !.claims = Append(DeleteById(db.claims, claim_id), row),
                        !.sources = _sync_source_claim_backlinks(db.sources, claim_id,
                                        existing.source_ids, row.source_ids),
                        !.predictions = _ensure_prediction_for_claim(db.predictions, row)],
              ret |-> "updated"]

\* dict.setdefault
setdefault(record, field, value) ==
    [f \in DOMAIN record \cup {field} |->
        IF f \in DOMAIN record THEN record[f] ELSE value]

\* the body of "for claim in claims_list" of the import command, for the on_conflict
\* policy given
import_claim(db, record, on_conflict, generate_embedding) ==
    LET claim == setdefault(setdefault(setdefault(record, "source_ids", <<>>),
                                       "version", 1), "credence", 50)
    IN  IF HasId(db.claims, claim.id)
        THEN IF on_conflict = "skip" THEN [db |-> db, ret |-> "skipped"]
             ELSE IF on_conflict = "update"
                  THEN _replace_claim_row_for_import(db, claim.id, claim, generate_embedding)
                  ELSE [db |-> db, ret |-> "exit 1"]
        ELSE [db |-> add_claim(db, claim, generate_embedding).db, ret |-> "created"]

delete_claim_KeepBacklinks(db, claim_id) ==
    [db |-> [db EXCEPT
                !.claims = DeleteById(db.claims, claim_id),
                !.predictions = SelectSeq(db.predictions,
                                          LAMBDA p : p.claim_id # claim_id)],
     ret |-> "True"]
delete_claim(db, claim_id) ==
    LET source_ids == IF HasId(db.claims, claim_id)
                      THEN RowById(db.claims, claim_id).source_ids ELSE <<>>
    IN  [db |-> [db EXCEPT
                    !.claims = DeleteById(db.claims, claim_id),
                    !.sources = RemoveAll(db.sources, source_ids, claim_id),
                    !.predictions = SelectSeq(db.predictions,
                                              LAMBDA p : p.claim_id # claim_id)],
         ret |-> "True"]

add_source(db, source) ==
    IF source.id # "" /\ HasId(db.sources, source.id)
    THEN [db |-> db, ret |-> "ValueError"]
    ELSE [db |-> [db EXCEPT !.sources = Append(db.sources, source)], ret |-> "ok"]

\* update_source with updates = {"claims_extracted": value}
update_source(db, source_id, claims_extracted) ==
    IF ~HasId(db.sources, source_id)
    THEN [db |-> db, ret |-> "False"]
    ELSE [db |-> [db EXCEPT !.sources =
                        SetClaimsExtracted(db.sources, source_id, claims_extracted)],
          ret |-> "True"]

add_prediction(db, prediction) ==
    [db |-> [db EXCEPT !.predictions = Append(db.predictions, prediction)], ret |-> "ok"]

add_chain(db, chain) ==
    [db |-> [db EXCEPT !.chains = Append(db.chains, chain)], ret |-> "ok"]

(***************************************************************************)
(* scripts/validate.py: validate_db, the content checks on a loaded        *)
(* snapshot.  A finding's message is the tuple of the values its text      *)
(* interpolates.                                                           *)
(***************************************************************************)
Opt(cond, finding) == IF cond THEN <<finding>> ELSE <<>>
FlatMap(s, F(_)) == Concat([i \in 1..Len(s) |-> F(s[i])])

REL_FIELDS == <<"supports", "contradicts", "depends_on", "modified_by">>

\* ValidateClaim written as one if/elif ladder: the first failing check ends it
ValidateClaim_FirstFailureOnly(claim_id, claim, claim_ids, source_ids, chain_ids) ==
    IF ~CLAIM_ID_RE(claim_id)
    THEN <<Finding("ERROR", "CLAIM_ID_FORMAT", <<claim_id>>)>>
    ELSE IF claim.domain # SplitFirst(claim_id, "-")
    THEN <<Finding("ERROR", "CLAIM_DOMAIN_MISMATCH",
                   <<claim_id, SplitFirst(claim_id, "-"), claim.domain>>)>>
    ELSE IF claim.domain \notin VALID_DOMAINS
    THEN <<Finding("ERROR", "CLAIM_DOMAIN_INVALID", <<claim_id, claim.domain>>)>>
    ELSE IF claim.type \notin ALLOWED_CLAIM_TYPES
    THEN <<Finding("ERROR", "CLAIM_TYPE_INVALID", <<claim_id, claim.type>>)>>
    ELSE IF claim.evidence_level \notin ALLOWED_EVIDENCE_LEVELS
    THEN <<Finding("ERROR", "CLAIM_EVIDENCE_INVALID", <<claim_id, claim.evidence_level>>)>>
    ELSE IF ~_is_probability(claim.credence)
    THEN <<Finding("ERROR", "CLAIM_CREDENCE_INVALID", <<claim_id, claim.credence>>)>>
    ELSE IF claim.text = <<>> \/ Strip(claim.text) = <<>>
    THEN <<Finding("ERROR", "CLAIM_TEXT_EMPTY", <<claim_id>>)>>
    ELSE FlatMap(claim.source_ids, LAMBDA source_id :
             Opt(source_id \notin source_ids,
                 Finding("ERROR", "CLAIM_SOURCE_MISSING", <<claim_id, source_id>>)))
         \o FlatMap(REL_FIELDS, LAMBDA rel_field :
             FlatMap(claim[rel_field], LAMBDA target_id :
                 Opt(target_id \notin claim_ids,
                     Finding("ERROR", "CLAIM_REL_MISSING", <<claim_id, rel_field, target_id>>))))
         \o Opt(claim.part_of_chain # <<>> /\ claim.part_of_chain \notin chain_ids,
                Finding("ERROR", "CLAIM_CHAIN_MISSING", <<claim_id, claim.part_of_chain>>))
         \o Opt(~claim.embedding, Finding("WARN", "CLAIM_NO_EMBEDDING", <<claim_id>>))

\* the body of "for claim_id, claim in claims.items()"
ValidateClaim(claim_id, claim, claim_ids, source_ids, chain_ids) ==
    IF ~CLAIM_ID_RE(claim_id)
    THEN <<Finding("ERROR", "CLAIM_ID_FORMAT", <<claim_id>>)>>
    ELSE LET domain_from_id == SplitFirst(claim_id, "-")
             chain_ref == claim.part_of_chain
         IN  Opt(claim.domain # domain_from_id,
                 Finding("ERROR", "CLAIM_DOMAIN_MISMATCH", <<claim_id, domain_from_id, claim.domain>>))
          \o Opt(claim.domain \notin VALID_DOMAINS,
                 Finding("ERROR", "CLAIM_DOMAIN_INVALID", <<claim_id, claim.domain>>))
          \o Opt(claim.type \notin ALLOWED_CLAIM_TYPES,
                 Finding("ERROR", "CLAIM_TYPE_INVALID", <<claim_id, claim.type>>))
          \o Opt(claim.evidence_level \notin ALLOWED_EVIDENCE_LEVELS,
                 Finding("ERROR", "CLAIM_EVIDENCE_INVALID", <<claim_id, claim.evidence_level>>))
          \o Opt(~_is_probability(claim.credence),
                 Finding("ERROR", "CLAIM_CREDENCE_INVALID", <<claim_id, claim.credence>>))
          \o Opt(claim.text = <<>> \/ Strip(claim.text) = <<>>,
                 Finding("ERROR", "CLAIM_TEXT_EMPTY", <<claim_id>>))
          \o FlatMap(claim.source_ids, LAMBDA source_id :
                 Opt(source_id \notin source_ids,
                     Finding("ERROR", "CLAIM_SOURCE_MISSING", <<claim_id, source_id>>)))
          \o FlatMap(REL_FIELDS, LAMBDA rel_field :
                 FlatMap(claim[rel_field], LAMBDA target_id :
                     Opt(target_id \notin claim_ids,
                         Finding("ERROR", "CLAIM_REL_MISSING", <<claim_id, rel_field, target_id>>))))
          \o Opt(chain_ref # <<>> /\ chain_ref \notin chain_ids,
                 Finding("ERROR", "CLAIM_CHAIN_MISSING", <<claim_id, chain_ref>>))
          \o Opt(~claim.embedding,
                 Finding("WARN", "CLAIM_NO_EMBEDDING", <<claim_id>>))

\* ValidateSource without the reverse scan over the claims
ValidateSource_NoReverseScan(source_id, source, claimTbl) ==
    LET claim_ids == SeqSet(DictKeys(claimTbl))
    IN  Opt(source.type \notin ALLOWED_SOURCE_TYPES,
            Finding("ERROR", "SOURCE_TYPE_INVALID", <<source_id, source.type>>))
     \o Opt(source.reliability # None /\ ~_is_probability(source.reliability),
            Finding("ERROR", "SOURCE_RELIABILITY_INVALID", <<source_id, source.reliability>>))
     \o FlatMap(source.claims_extracted, LAMBDA claim_id :
            IF claim_id \notin claim_ids
            THEN <<Finding("ERROR", "SOURCE_CLAIM_MISSING", <<source_id, claim_id>>)>>
            ELSE Opt(~InSeq(source_id, DictGet(claimTbl, claim_id).source_ids),
                     Finding("ERROR", "SOURCE_BACKLINK_MISSING", <<source_id, claim_id>>)))

\* the body of "for source_id, source in sources.items()"
ValidateSource(source_id, source, claimTbl) ==
    LET claim_ids == SeqSet(DictKeys(claimTbl))
    IN  Opt(source.type \notin ALLOWED_SOURCE_TYPES,
            Finding("ERROR", "SOURCE_TYPE_INVALID", <<source_id, source.type>>))
     \o Opt(source.reliability # None /\ ~_is_probability(source.reliability),
            Finding("ERROR", "SOURCE_RELIABILITY_INVALID", <<source_id, source.reliability>>))
     \o FlatMap(source.claims_extracted, LAMBDA claim_id :
            IF claim_id \notin claim_ids
            THEN <<Finding("ERROR", "SOURCE_CLAIM_MISSING", <<source_id, claim_id>>)>>
            ELSE Opt(~InSeq(source_id, DictGet(claimTbl, claim_id).source_ids),
                     Finding("ERROR", "SOURCE_BACKLINK_MISSING", <<source_id, claim_id>>)))
     \o FlatMap(DictKeys(claimTbl), LAMBDA claim_id :
            Opt(/\ InSeq(source_id, DictGet(claimTbl, claim_id).source_ids)
                /\ ~InSeq(claim_id, source.claims_extracted),
                Finding("ERROR", "SOURCE_CLAIM_NOT_LISTED", <<source_id, claim_id>>)))

SeqMin(s) == CHOOSE x \in SeqSet(s) : \A y \in SeqSet(s) : x <= y

ValidateChain_Decimal(chain_id, chain, claimTbl) ==
    IF ~CHAIN_ID_RE(chain_id)
    THEN <<Finding("ERROR", "CHAIN_ID_FORMAT", <<chain_id>>)>>
    ELSE LET claim_ids == SeqSet(DictKeys(claimTbl))
             chain_claims == SelectSeq(chain.claims, LAMBDA cid : cid \in claim_ids)
             credences == [i \in 1..Len(chain_claims) |->
                              DictGet(claimTbl, chain_claims[i]).credence]
         IN  Opt(~_is_probability(chain.credence),
                 Finding("ERROR", "CHAIN_CREDENCE_INVALID", <<chain_id, chain.credence>>))
          \o FlatMap(chain.claims, LAMBDA claim_id :
                 Opt(claim_id \notin claim_ids,
                     Finding("ERROR", "CHAIN_CLAIM_MISSING", <<chain_id, claim_id>>)))
          \o Opt(chain_claims # <<>> /\ chain.credence > SeqMin(credences) + 1,
                 Finding("WARN", "CHAIN_CREDENCE_EXCEEDS_MIN", <<chain_id, chain.credence>>))
\* the body of "for chain_id, chain in chains.items()"
ValidateChain(chain_id, chain, claimTbl) ==
    IF ~CHAIN_ID_RE(chain_id)
    THEN <<Finding("ERROR", "CHAIN_ID_FORMAT", <<chain_id>>)>>
    ELSE LET claim_ids == SeqSet(DictKeys(claimTbl))
             chain_claims == SelectSeq(chain.claims, LAMBDA cid : cid \in claim_ids)
             credences == [i \in 1..Len(chain_claims) |->
                              DictGet(claimTbl, chain_claims[i]).credence]
         IN  Opt(~_is_probability(chain.credence),
                 Finding("ERROR", "CHAIN_CREDENCE_INVALID", <<chain_id, chain.credence>>))
          \o FlatMap(chain.claims, LAMBDA claim_id :
                 Opt(claim_id \notin claim_ids,
                     Finding("ERROR", "CHAIN_CLAIM_MISSING", <<chain_id, claim_id>>)))
          \o Opt(chain_claims # <<>>
                    /\ Float32(chain.credence) - Float32(SeqMin(credences)) > HUNDREDTH,
                 Finding("WARN", "CHAIN_CREDENCE_EXCEEDS_MIN", <<chain_id, chain.credence>>))

\* min() over the member credences, "+ 0.01" and ">" raise TypeError on None
ChainRaises(chain_id, chain, claimTbl) ==
    LET claim_ids == SeqSet(DictKeys(claimTbl))
        chain_claims == SelectSeq(chain.claims, LAMBDA cid : cid \in claim_ids)
    IN  /\ CHAIN_ID_RE(chain_id)
        /\ chain_claims # <<>>
        /\ \/ chain.credence = None
           \/ \E i \in 1..Len(chain_claims) :
                 DictGet(claimTbl, chain_claims[i]).credence = None

\* the body of "for claim_id, pred in predictions.items()"
ValidatePrediction(claim_id, pred, claimTbl, source_ids) ==
    LET claim_ids == SeqSet(DictKeys(claimTbl))
    IN  Opt(pred.status \notin ALLOWED_PREDICTION_STATUSES,
            Finding("ERROR", "PREDICTION_STATUS_INVALID", <<claim_id, pred.status>>))
     \o (IF claim_id \notin claim_ids
         THEN <<Finding("ERROR", "PREDICTION_CLAIM_MISSING", <<claim_id>>)>>
         ELSE Opt(DictGet(claimTbl, claim_id).type # "[P]",
                  Finding("ERROR", "PREDICTION_CLAIM_NOT_P", <<claim_id>>)))
     \o Opt(pred.source_id # "" /\ pred.source_id \notin source_ids,
            Finding("ERROR", "PREDICTION_SOURCE_MISSING", <<claim_id, pred.source_id>>))

\* the characters of the ids, in code point order
CHAR_ORDER == <<"-">> \o <<"0","1","2","3","4","5","6","7","8","9">> \o UpperSeq \o LowerSeq
Ord(c) == CHOOSE i \in 1..Len(CHAR_ORDER) : CHAR_ORDER[i] = c
\* a < b for str
RECURSIVE StrLess(_, _)
StrLess(a, b) ==
    IF b = <<>> THEN FALSE
    ELSE IF a = <<>> THEN TRUE
    ELSE IF a[1] = b[1] THEN StrLess(Tail(a), Tail(b))
    ELSE Ord(a[1]) < Ord(b[1])
\* sorted(set of str)
RECURSIVE sorted(_)
sorted(set) ==
    IF set = {} THEN <<>>
    ELSE LET least == CHOOSE x \in set : \A y \in set \ {x} : StrLess(x, y)
         IN  <<least>> \o sorted(set \ {least})
\* seq[:n]
Take(seq, n) == SubSeq(seq, 1, IF Len(seq) < n THEN Len(seq) ELSE n)

\* MissingPredictions reporting each missing claim in a finding of its own
MissingPredictions_PerClaim(claimTbl, predTbl) ==
    FlatMap(DictKeys(claimTbl), LAMBDA cid :
        Opt(DictGet(claimTbl, cid).type = "[P]" /\ cid \notin SeqSet(PredKeys(predTbl)),
            Finding("ERROR", "PREDICTIONS_MISSING", <<1, <<cid>>, "...">>)))

\* "Check all [P] claims have predictions": the message is the count, the first five
\* of the sorted ids and the text after them
MissingPredictions(claimTbl, predTbl) ==
    LET prediction_claim_ids == {cid \in SeqSet(DictKeys(claimTbl)) :
                                    DictGet(claimTbl, cid).type = "[P]"}
        prediction_ids == SeqSet(PredKeys(predTbl))
        missing_predictions == prediction_claim_ids \ prediction_ids
    IN  Opt(missing_predictions # {},
            Finding("ERROR", "PREDICTIONS_MISSING",
                    <<Cardinality(missing_predictions), Take(sorted(missing_predictions), 5),
                      "...">>))

VALID_ANALYSIS_STATUSES == {"started", "completed", "failed", "canceled", "draft"}
VALID_ANALYSIS_TOOLS == {"claude-code", "codex", "amp", "manual", "other"}

\* json.loads on the stages_json texts of the model
JsonLoads(stages_json) == stages_json \in {"{}", "[]"}

\* the body of "for log in analysis_logs"; an empty source_id is ""
ValidateAnalysisLog(log, claim_ids, source_ids) ==
    Opt(log.status \notin VALID_ANALYSIS_STATUSES,
        Finding("ERROR", "ANALYSIS_STATUS_INVALID", <<log.id, log.status>>))
 \o Opt(log.tool \notin VALID_ANALYSIS_TOOLS,
        Finding("ERROR", "ANALYSIS_TOOL_INVALID", <<log.id, log.tool>>))
 \o Opt(log.status = "completed" /\ log.source_id # "" /\ log.source_id \notin source_ids,
        Finding("ERROR", "ANALYSIS_SOURCE_MISSING", <<log.id, log.source_id>>))
 \o (IF log.status # "draft"
     THEN FlatMap(log.claims_extracted, LAMBDA claim_id :
              Opt(claim_id \notin claim_ids,
                  Finding("ERROR", "ANALYSIS_CLAIM_MISSING", <<log.id, claim_id>>)))
       \o FlatMap(log.claims_updated, LAMBDA claim_id :
              Opt(claim_id \notin claim_ids,
                  Finding("ERROR", "ANALYSIS_CLAIM_MISSING", <<log.id, claim_id>>)))
     ELSE <<>>)
 \o Opt(log.stages_json # "" /\ ~JsonLoads(log.stages_json),
        Finding("ERROR", "ANALYSIS_STAGES_INVALID_JSON", <<log.id>>))
 \o Opt(log.duration_seconds # None /\ log.duration_seconds < 0,
        Finding("ERROR", "ANALYSIS_DURATION_NEGATIVE", <<log.id, log.duration_seconds>>))
 \o Opt(log.cost_usd # None /\ log.cost_usd < 0,
        Finding("ERROR", "ANALYSIS_COST_NEGATIVE", <<log.id, log.cost_usd>>))

\* "if 'analysis_logs' in existing_tables"
AnalysisLogFindings(e, db) ==
    IF "analysis_logs" \notin db.tables THEN <<>>
    ELSE IF ~e.logs_readable
         THEN <<Finding("ERROR", "ANALYSIS_LOGS_READ", <<"Error reading analysis_logs">>)>>
         ELSE FlatMap(db.analysis_logs, LAMBDA log :
                  ValidateAnalysisLog(log, SeqSet(DictKeys(db.claims)),
                                      SeqSet(DictKeys(db.sources))))

\* the checks on claims, sources, chains and predictions, in order
ContentFindings(db) ==
    LET claim_ids == SeqSet(DictKeys(db.claims))
        source_ids == SeqSet(DictKeys(db.sources))
        chain_ids == SeqSet(DictKeys(db.chains))
    IN  FlatMap(DictKeys(db.claims), LAMBDA claim_id :
            ValidateClaim(claim_id, DictGet(db.claims, claim_id),
                          claim_ids, source_ids, chain_ids))
     \o FlatMap(DictKeys(db.sources), LAMBDA source_id :
            ValidateSource(source_id, DictGet(db.sources, source_id), db.claims))
     \o FlatMap(DictKeys(db.chains), LAMBDA chain_id :
            ValidateChain(chain_id, DictGet(db.chains, chain_id), db.claims))
     \o FlatMap(PredKeys(db.predictions), LAMBDA claim_id :
            ValidatePrediction(claim_id, PredGet(db.predictions, claim_id),
                               db.claims, source_ids))
     \o MissingPredictions(db.claims, db.predictions)

\* the table names of init_tables, in sorted() order
TABLE_ORDER == <<"analysis_logs", "chains", "claims", "contradictions", "definitions",
                 "predictions", "sources">>
ALL_TABLES == SeqSet(TABLE_ORDER)
expected_tables_WithLogs == ALL_TABLES
expected_tables == {"claims", "sources", "chains", "predictions", "contradictions",
                    "definitions"}
SortedTables(names) == SelectSeq(TABLE_ORDER, LAMBDA t : t \in names)

StoreNotFound_WithoutRoot(e) ==
    /\ ~e.db_path
    /\ ~e.REALITYCHECK_DATA
    /\ ~e.default_db
    /\ ~e.project_root
\* db_path is still None and REALITYCHECK_DATA is unset after the auto-detection
StoreNotFound(e) ==
    /\ ~e.db_path
    /\ ~e.REALITYCHECK_DATA
    /\ ~e.default_db
    /\ ~(e.project_root /\ e.detected)

LOAD == <<"list_claims", "list_sources", "list_chains", "list_predictions">>
Returned(findings, effects) ==
    [ret |-> "findings", findings |-> findings, effects |-> effects]
Raised(exception, effects) ==
    [ret |-> exception, findings |-> <<>>, effects |-> effects]

\* validate_db(db_path): what it returns or raises, and the store calls it made
validate_db(e, db) ==
    IF StoreNotFound(e)
    THEN Returned(<<Finding("ERROR", "REALITYCHECK_DATA_MISSING",
                            <<"data/realitycheck.lance">>)>>, <<>>)
    ELSE IF ~e.connects
    THEN Returned(<<Finding("ERROR", "DB_CONNECTION", <<"Cannot connect to database">>)>>,
                  <<"get_db">>)
    ELSE IF expected_tables \ db.tables # {}
    THEN Returned(<<Finding("ERROR", "DB_TABLES_MISSING",
                            SortedTables(expected_tables \ db.tables))>>,
                  <<"get_db", "get_table_names">>)
    ELSE IF ~e.readable
    THEN Returned(<<Finding("ERROR", "DB_READ", <<"Error reading database">>)>>,
                  <<"get_db", "get_table_names", "list_claims">>)
    ELSE IF \E chain_id \in SeqSet(DictKeys(db.chains)) :
                ChainRaises(chain_id, DictGet(db.chains, chain_id), db.claims)
    THEN Raised("TypeError", <<"get_db", "get_table_names">> \o LOAD)
    ELSE Returned(ContentFindings(db) \o AnalysisLogFindings(e, db),
                  <<"get_db", "get_table_names">> \o LOAD
                      \o (IF "analysis_logs" \in db.tables
                          THEN <<"list_analysis_logs">> ELSE <<>>))

(***************************************************************************)
(* The records the store operations are called with.                       *)
(***************************************************************************)
TECH1 == <<"T","E","C","H","-","2","0","2","6","-","0","0","1">>
GOV2 == <<"G","O","V","-","2","0","2","6","-","0","0","2">>
CHAIN1 == <<"C","H","A","I","N","-","2","0","2","6","-","0","0","1">>
ClaimIds == {TECH1, GOV2}
SourceIds == {"s1", "s2"}

\* a claim as add_claim receives it: version 1, no embedding supplied
Claim(id, type, source_ids) ==
    [id |-> id, text |-> <<"t">>, type |-> type, domain |-> SplitFirst(id, "-"),
     evidence_level |-> "E2", credence |-> 50, source_ids |-> source_ids,
     supports |-> <<>>, contradicts |-> <<>>, depends_on |-> <<>>,
     modified_by |-> <<>>, part_of_chain |-> <<>>, version |-> 1,
     embedding |-> FALSE]
Source(id, claims_extracted) ==
    [id |-> id, type |-> "PAPER", reliability |-> 50, claims_extracted |-> claims_extracted]

SourceIdLists == {<<>>, <<"s1">>, <<"s2">>, <<"s1", "s2">>}
ClaimIdLists == {<<>>, <<TECH1>>, <<GOV2>>, <<TECH1, GOV2>>}
ClaimInputs == {Claim(id, type, l) : id \in ClaimIds, type \in {"[F]", "[P]"},
                                     l \in SourceIdLists}
ClaimUpdates == {[source_ids |-> l] : l \in SourceIdLists}
                \cup {[type |-> t] : t \in {"[F]", "[P]"}}
PredictionInputs == {[claim_id |-> c, source_id |-> "s1", status |-> "[P?]"] :
                        c \in ClaimIds}

\* the claims stored in tbl that cite source_id
Citing(tbl, source_id) ==
    {tbl[i].id : i \in {j \in 1..Len(tbl) : InSeq(source_id, tbl[j].source_ids)}}

(***************************************************************************)
(* Store actions: one per operation of scripts/db.py and validate_db.      *)
(***************************************************************************)
Commit(op, arg, r, findings) ==
    /\ claims' = r.db.claims
    /\ sources' = r.db.sources
    /\ chains' = r.db.chains
    /\ predictions' = r.db.predictions
    /\ last' = [op |-> op, arg |-> arg, ret |-> r.ret, findings |-> findings,
                effects |-> <<>>]
    /\ UNCHANGED <<analysis_logs, tables, env, docVars>>

AddSource(source) ==
    /\ Len(sources) < MaxRows
    /\ Commit("add_source", source.id, add_source(DB, source), <<>>)

UpdateSource(source_id, claims_extracted) ==
    Commit("update_source", source_id,
           update_source(DB, source_id, claims_extracted), <<>>)

AddClaim(claim) ==
    /\ Len(claims) < MaxRows
    /\ Commit("add_claim", claim.id, add_claim(DB, claim, TRUE), <<>>)

UpdateClaim(claim_id, updates) ==
    /\ HasId(claims, claim_id) => RowById(claims, claim_id).version < MaxVersion
    /\ Commit("update_claim", claim_id, update_claim(DB, claim_id, updates), <<>>)

DeleteClaim(claim_id) ==
    Commit("delete_claim", claim_id, delete_claim(DB, claim_id), <<>>)

AddPrediction(prediction) ==
    /\ Len(predictions) < MaxRows
    /\ Commit("add_prediction", prediction.claim_id, add_prediction(DB, prediction), <<>>)

ValidateDb ==
    /\ last' = [op |-> "validate_db", arg |-> <<>>, ret |-> validate_db(env, DB).ret,
                findings |-> validate_db(env, DB).findings,
                effects |-> validate_db(env, DB).effects]
    /\ UNCHANGED <<claims, sources, chains, predictions, analysis_logs, tables, env, docVars>>

\* validate_db called with an explicit path to a store that opens and reads
ExplicitPath ==
    [db_path |-> TRUE, REALITYCHECK_DATA |-> FALSE, default_db |-> FALSE,
     project_root |-> FALSE, detected |-> FALSE,
     connects |-> TRUE, readable |-> TRUE, logs_readable |-> TRUE]

NoCall == [op |-> "init", arg |-> <<>>, ret |-> "ok", findings |-> <<>>, effects |-> <<>>]
NoExtraction == [cell_text |-> <<>>, done |-> FALSE, claim_id |-> <<>>]
\* no claims/registry.yaml, reference/sources.yaml or tracking/predictions.md
NoRepo == [registry |-> "FileNotFoundError", claims |-> <<>>, chains |-> <<>>,
           sources_yaml |-> "FileNotFoundError", sources |-> <<>>,
           predictions_md |-> FALSE, pred_claim_ids |-> {}]

InitDoc ==
    /\ doc = <<>>
    /\ docPath = <<>>
    /\ profile = "none"
    /\ result = <<>>
    /\ factual = [done |-> FALSE, warnings |-> <<>>]
    /\ extraction = NoExtraction
    /\ repo_root = NoRepo

InitStore ==
    /\ claims = <<>>
    /\ sources = <<>>
    /\ chains = <<>>
    /\ predictions = <<>>
    /\ last = NoCall
    /\ analysis_logs = <<>>
    /\ tables = ALL_TABLES
    /\ env = ExplicitPath

Init == InitStore /\ InitDoc

Next ==
    \/ \E id \in {"s1"}, l \in ClaimIdLists : AddSource(Source(id, l))
    \/ \E id \in {"s1"}, l \in ClaimIdLists : UpdateSource(id, l)
    \/ \E claim \in ClaimInputs : AddClaim(claim)
    \/ \E id \in ClaimIds, u \in ClaimUpdates : UpdateClaim(id, u)
    \/ \E id \in ClaimIds : DeleteClaim(id)
    \/ \E p \in PredictionInputs : AddPrediction(p)
    \/ ValidateDb

Spec == Init /\ [][Next]_vars

\* add_source, add_claim, update_claim and delete_claim only; a source is
\* created with a claims_extracted list naming only claims that already cite it
NextCrud ==
    \/ \E id \in SourceIds, l \in ClaimIdLists :
          /\ SeqSet(l) \subseteq Citing(claims, id)
          /\ AddSource(Source(id, l))
    \/ \E claim \in ClaimInputs : AddClaim(claim)
    \/ \E id \in ClaimIds, u \in ClaimUpdates : UpdateClaim(id, u)
    \/ \E id \in ClaimIds : DeleteClaim(id)

SpecCrud == Init /\ [][NextCrud]_vars

(***************************************************************************)
(* Snapshots with one claim and one chain of arbitrary field values, as    *)
(* add_source, add_chain and add_claim (which validate nothing) store      *)
(* them; validate_db then runs on the snapshot.                            *)
(***************************************************************************)
FOO1 == <<"F","O","O","-","2","0","2","6","-","0","0","1">>
BAD1 == <<"t","e","c","h","-","2","6","-","1">>
CHAIN9 == <<"C","H","A","I","N","-","2","0","2","6","-","0","0","9">>
BADCHAIN == <<"c","h","a","i","n","-","1">>
TECH == <<"T","E","C","H">>
LABOR == <<"L","A","B","O","R">>
FOO == <<"F","O","O">>

SnapRels == { [supports |-> <<>>, modified_by |-> <<>>],
              [supports |-> <<GOV2>>, modified_by |-> <<>>],
              [supports |-> <<>>, modified_by |-> <<GOV2>>] }
SnapClaims ==
    { [Claim(id, type, source_ids) EXCEPT
          !.domain = domain, !.evidence_level = evidence_level,
          !.credence = credence, !.text = text, !.supports = rels.supports,
          !.modified_by = rels.modified_by, !.part_of_chain = part_of_chain] :
        id \in {TECH1, FOO1, BAD1}, type \in {"[F]", "[Z]"},
        source_ids \in {<<>>, <<"s1">>, <<"s9">>},
        domain \in {TECH, LABOR, FOO}, evidence_level \in {"E2", "E9"},
        credence \in {50, 150}, text \in {<<"t">>, <<" ">>},
        rels \in SnapRels, part_of_chain \in {<<>>, CHAIN1, CHAIN9} }
SnapChains ==
    { [id |-> id, credence |-> credence, claims |-> members] :
        id \in {CHAIN1, BADCHAIN}, credence \in {50, 150},
        members \in {<<>>, <<GOV2>>} }

EmptyDb == [claims |-> <<>>, sources |-> <<>>, chains |-> <<>>, predictions |-> <<>>,
            analysis_logs |-> <<>>, tables |-> ALL_TABLES]
Snapshot(claim, chain) ==
    LET withSource == add_source(EmptyDb, Source("s1", <<>>)).db
        withChain == add_chain(withSource, chain).db
    IN  add_claim(withChain, claim, FALSE).db

InitSnap ==
    /\ \E claim \in SnapClaims, chain \in SnapChains :
          LET db == Snapshot(claim, chain)
          IN  /\ claims = db.claims
              /\ sources = db.sources
              /\ chains = db.chains
              /\ predictions = db.predictions
    /\ last = NoCall
    /\ analysis_logs = <<>>
    /\ tables = ALL_TABLES
    /\ env = ExplicitPath
    /\ InitDoc

NextSnap == ValidateDb

SpecSnap == InitSnap /\ [][NextSnap]_vars

(***************************************************************************)
(* scripts/analysis_validator.py: functions on the text of one table cell. *)
(* None is the empty text <<>>.                                            *)
(***************************************************************************)
Contains(s, m) ==
    \E i \in 1..(Len(s) - Len(m) + 1) : SubSeq(s, i, i + Len(m) - 1) = m
RemoveChars(s, set) == SelectSeq(s, LAMBDA ch : ch \notin set)

\* the backquote character, which a TLA+ string cannot hold
BACKTICK == "~"

MARKDOWN_WRAPPER_MARKERS == << <<"*","*">>, <<"_","_">>, <<BACKTICK>>, <<"*">>, <<"_">> >>
VALID_STAGE2_STATUSES == { <<"o","k">>, <<"x">>, <<"n","f">>, <<"b","l","o","c","k","e","d">>, <<"?">> }

\* the while loop of _strip_simple_markdown_wrappers: the first marker of the
\* tuple that wraps the text is removed, the rest stripped, and again
RECURSIVE StripWrappers(_)
StripWrappers(cleaned) ==
    LET wraps(k) == LET marker == MARKDOWN_WRAPPER_MARKERS[k]
                    IN  /\ StartsWith(cleaned, marker)
                        /\ EndsWith(cleaned, marker)
                        /\ Len(cleaned) > Len(marker) * 2
        hits == {k \in 1..Len(MARKDOWN_WRAPPER_MARKERS) : wraps(k)}
    IN  IF cleaned = <<>> \/ hits = {} THEN cleaned
        ELSE LET k == CHOOSE h \in hits : \A g \in hits : h <= g
                 marker_len == Len(MARKDOWN_WRAPPER_MARKERS[k])
             IN  StripWrappers(Strip(SubSeq(cleaned, marker_len + 1,
                                            Len(cleaned) - marker_len)))

_strip_simple_markdown_wrappers(text) == StripWrappers(Strip(text))

\* LINKED_CLAIM_ID_RE: "[" id "](" one or more characters other than ")" ")"
LinkedId(text) ==
    LET ends == {k \in 2..(Len(text) - 4) :
                    /\ text[1] = "["
                    /\ IsIdPattern(SubSeq(text, 2, k))
                    /\ text[k+1] = "]" /\ text[k+2] = "("
                    /\ text[Len(text)] = ")"
                    /\ \A j \in (k+3)..(Len(text) - 1) : text[j] # ")"}
    IN  IF ends = {} THEN <<>> ELSE SubSeq(text, 2, CHOOSE k \in ends : TRUE)

extract_claim_id(cell_text) ==
    LET text == _strip_simple_markdown_wrappers(cell_text)
    IN  IF IsIdPattern(text) THEN text ELSE LinkedId(text)

\* re.sub(r"\s+", " ", name.strip().lower())
RECURSIVE CollapseWs(_)
CollapseWs(s) ==
    IF s = <<>> THEN <<>>
    ELSE IF s[1] \in Space
         THEN IF Len(s) > 1 /\ s[2] \in Space
              THEN CollapseWs(Tail(s))
              ELSE <<" ">> \o CollapseWs(Tail(s))
         ELSE <<s[1]>> \o CollapseWs(Tail(s))
_normalize_column_name(name) == CollapseWs(LowerStr(Strip(name)))

Unbracket(cleaned) ==
    IF StartsWith(cleaned, <<"[">>) /\ EndsWith(cleaned, <<"]">>) /\ Len(cleaned) >= 3
    THEN SubSeq(cleaned, 2, Len(cleaned) - 1)
    ELSE cleaned

_normalize_status(status) ==
    LET cleaned == LowerStr(Strip(RemoveChars(_strip_simple_markdown_wrappers(status),
                                              {BACKTICK, "*"})))
    IN  IF Unbracket(cleaned) = cleaned THEN cleaned ELSE Strip(Unbracket(cleaned))

_is_crux_value(value) ==
    UpperStr(RemoveChars(value, {BACKTICK, "*"} \cup Space)) = <<"Y">>

_normalize_claim_type(claim_type) ==
    Unbracket(UpperStr(RemoveChars(_strip_simple_markdown_wrappers(claim_type), Space)))

_is_table_separator_row(cells) ==
    /\ cells # <<>>
    /\ \A i \in 1..Len(cells) : Strip(RemoveChars(cells[i], {":", "-"})) = <<>>

\* float() of a cell in decimal notation, in hundredths (truncated); ok is
\* FALSE where float() raises ValueError
DigitSeq == <<"0","1","2","3","4","5","6","7","8","9">>
DigitVal(ch) == (CHOOSE n \in 1..10 : DigitSeq[n] = ch) - 1
RECURSIVE ParseNat(_)
ParseNat(s) ==
    IF s = <<>> THEN 0
    ELSE 10 * ParseNat(SubSeq(s, 1, Len(s) - 1)) + DigitVal(s[Len(s)])
float(cell_text) ==
    LET t == Strip(cell_text)
        dots == {i \in 1..Len(t) : t[i] = "."}
        whole == IF dots = {} THEN t
                 ELSE SubSeq(t, 1, (CHOOSE i \in dots : TRUE) - 1)
        frac == IF dots = {} THEN <<>>
                ELSE SubSeq(t, (CHOOSE i \in dots : TRUE) + 1, Len(t))
        wellFormed == /\ Cardinality(dots) <= 1
                      /\ Len(whole) + Len(frac) > 0
                      /\ AllIn(whole, 1, Len(whole), Digit)
                      /\ AllIn(frac, 1, Len(frac), Digit)
    IN  IF wellFormed
        THEN [ok |-> TRUE,
              value |-> 100 * ParseNat(whole)
                            + ParseNat(SubSeq(frac \o <<"0", "0">>, 1, 2))]
        ELSE [ok |-> FALSE, value |-> 0]

(***************************************************************************)
(* The analysis document.  Its content is a sequence of lines; a line is a *)
(* heading ("#" * level, a space, the title), a table row ("| " followed   *)
(* by the cells joined with " | " and " |"; a cell holds no "|") or a line *)
(* of other text (not starting with "|" or "#").  A message is kept as its *)
(* format string's name and the values formatted into it.                  *)
(***************************************************************************)
H(level, title) == [k |-> "h", level |-> level, text |-> title, cells |-> <<>>]
T(text) == [k |-> "t", level |-> 0, text |-> text, cells |-> <<>>]
R(cells) == [k |-> "r", level |-> 0, text |-> <<>>, cells |-> cells]
BLANK == T(<<>>)

Msg(kind, claim_id, detail) == [kind |-> kind, claim_id |-> claim_id, detail |-> detail]

RECURSIVE Join(_, _)
Join(ss, sep) ==
    IF ss = <<>> THEN <<>>
    ELSE IF Len(ss) = 1 THEN ss[1]
    ELSE ss[1] \o sep \o Join(Tail(ss), sep)

\* the least element of a non-empty set of line or column numbers
Least(set) == CHOOSE i \in set : \A j \in set : i <= j

_split_md_table_row(line) ==
    IF line.k = "r" THEN [i \in 1..Len(line.cells) |-> Strip(line.cells[i])] ELSE <<>>

\* the text after the first line that is exactly the header, up to the next
\* heading of level 2 to 6; empty when nothing but white space is there
_extract_section_content(content, level, title) ==
    LET heads == {i \in 1..Len(content) :
                    /\ content[i].k = "h" /\ content[i].level = level
                    /\ LowerStr(content[i].text) = LowerStr(title)}
    IN  IF heads = {} THEN <<>>
        ELSE LET start == Least(heads)
                 nexts == {j \in (start + 1)..Len(content) :
                              content[j].k = "h" /\ content[j].level \in 2..6}
                 end == IF nexts = {} THEN Len(content) ELSE Least(nexts) - 1
                 body == SubSeq(content, start + 1, end)
             IN  IF \A i \in 1..Len(body) :
                        body[i].k = "t" /\ Strip(body[i].text) = <<>>
                 THEN <<>>
                 ELSE body

_parse_first_markdown_table(section_content) ==
    LET lines == section_content
        starts == {index \in 1..(Len(lines) - 1) :
                      /\ _split_md_table_row(lines[index]) # <<>>
                      /\ _is_table_separator_row(_split_md_table_row(lines[index + 1]))}
    IN  IF starts = {} THEN [headers |-> <<>>, rows |-> <<>>]
        ELSE LET index == Least(starts)
                 stops == {j \in (index + 2)..Len(lines) :
                              _split_md_table_row(lines[j]) = <<>>}
                 lastRow == IF stops = {} THEN Len(lines) ELSE Least(stops) - 1
                 cellsOf == [j \in 1..(lastRow - index - 1) |->
                                _split_md_table_row(lines[index + 1 + j])]
             IN  [headers |-> _split_md_table_row(lines[index]),
                  rows |-> SelectSeq(cellsOf, LAMBDA c : ~_is_table_separator_row(c))]

\* the dict comprehension {normalized name: index}, kept as the normalized
\* names in column order; a later column of the same name replaces an earlier
\* one in the dict, and 0 is None
ColumnMap(headers) == [i \in 1..Len(headers) |-> _normalize_column_name(headers[i])]
ColumnGet(column_map, name) ==
    LET at == {i \in 1..Len(column_map) : column_map[i] = name}
    IN  IF at = {} THEN 0 ELSE CHOOSE i \in at : \A j \in at : j <= i

_find_column_index(column_map, candidates) ==
    LET found == {c \in 1..Len(candidates) : ColumnGet(column_map, candidates[c]) # 0}
    IN  IF found = {} THEN 0 ELSE ColumnGet(column_map, candidates[Least(found)])

cell(row_cells, index) ==
    IF index = 0 \/ index > Len(row_cells) THEN <<>> ELSE Strip(row_cells[index])

KEY_FACTUAL_CLAIMS_VERIFIED == <<"K","e","y"," ","F","a","c","t","u","a","l"," ","C","l","a","i","m","s"," ","V","e","r","i","f","i","e","d">>
METADATA == <<"M","e","t","a","d","a","t","a">>

\* the required columns of the Stage 2 table: the name reported when missing,
\* and the normalized header names accepted for it
STAGE2_COLUMNS ==
    << [field |-> "claim_id", name |-> <<"C","l","a","i","m"," ","I","D">>,
        candidates |-> << <<"c","l","a","i","m"," ","i","d">>, <<"i","d">> >>],
       [field |-> "claim", name |-> <<"C","l","a","i","m"," ","(","p","a","r","a","p","h","r","a","s","e","d",")">>,
        candidates |-> << <<"c","l","a","i","m"," ","(","p","a","r","a","p","h","r","a","s","e","d",")">>, <<"c","l","a","i","m">> >>],
       [field |-> "crux", name |-> <<"C","r","u","x","?">>, candidates |-> << <<"c","r","u","x","?">> >>],
       [field |-> "source_says", name |-> <<"S","o","u","r","c","e"," ","S","a","y","s">>,
        candidates |-> << <<"s","o","u","r","c","e"," ","s","a","y","s">> >>],
       [field |-> "actual", name |-> <<"A","c","t","u","a","l">>, candidates |-> << <<"a","c","t","u","a","l">> >>],
       [field |-> "external_source", name |-> <<"E","x","t","e","r","n","a","l"," ","S","o","u","r","c","e">>,
        candidates |-> << <<"e","x","t","e","r","n","a","l"," ","s","o","u","r","c","e">>, <<"v","e","r","i","f","i","c","a","t","i","o","n"," ","s","o","u","r","c","e">> >>],
       [field |-> "search_notes", name |-> <<"S","e","a","r","c","h"," ","N","o","t","e","s">>,
        candidates |-> << <<"s","e","a","r","c","h"," ","n","o","t","e","s">>, <<"n","o","t","e","s">> >>],
       [field |-> "status", name |-> <<"S","t","a","t","u","s">>, candidates |-> << <<"s","t","a","t","u","s">> >>] >>

\* the names of the required columns the header row does not provide
MissingRequired(column_map) ==
    LET names == [c \in 1..Len(STAGE2_COLUMNS) |-> STAGE2_COLUMNS[c].name]
        absent(c) == _find_column_index(column_map, STAGE2_COLUMNS[c].candidates) = 0
        flags == [c \in 1..Len(STAGE2_COLUMNS) |->
                     IF absent(c) THEN <<names[c]>> ELSE <<>>]
    IN  Concat(flags)

\* the missing-column message is dropped
_extract_stage2_factual_rows_Silent(content) ==
    LET table == _parse_first_markdown_table(
                     _extract_section_content(content, 3, KEY_FACTUAL_CLAIMS_VERIFIED))
        column_map == ColumnMap(table.headers)
        indices == [c \in 1..Len(STAGE2_COLUMNS) |->
                       _find_column_index(column_map, STAGE2_COLUMNS[c].candidates)]
    IN  [rows |-> [r \in 1..Len(table.rows) |->
                      [claim_id |-> cell(table.rows[r], indices[1]),
                       claim |-> cell(table.rows[r], indices[2]),
                       crux |-> cell(table.rows[r], indices[3]),
                       source_says |-> cell(table.rows[r], indices[4]),
                       actual |-> cell(table.rows[r], indices[5]),
                       external_source |-> cell(table.rows[r], indices[6]),
                       search_notes |-> cell(table.rows[r], indices[7]),
                       status |-> cell(table.rows[r], indices[8])]],
         warnings |-> <<>>]

_extract_stage2_factual_rows(content) ==
    LET section_content ==
            _extract_section_content(content, 3, KEY_FACTUAL_CLAIMS_VERIFIED)
        table == _parse_first_markdown_table(section_content)
        column_map == ColumnMap(table.headers)
        indices == [c \in 1..Len(STAGE2_COLUMNS) |->
                       _find_column_index(column_map, STAGE2_COLUMNS[c].candidates)]
        missing_required == MissingRequired(column_map)
    IN  IF section_content = <<>> \/ table.headers = <<>>
        THEN [rows |-> <<>>, warnings |-> <<>>]
        ELSE [rows |-> [r \in 1..Len(table.rows) |->
                          [claim_id |-> cell(table.rows[r], indices[1]),
                           claim |-> cell(table.rows[r], indices[2]),
                           crux |-> cell(table.rows[r], indices[3]),
                           source_says |-> cell(table.rows[r], indices[4]),
                           actual |-> cell(table.rows[r], indices[5]),
                           external_source |-> cell(table.rows[r], indices[6]),
                           search_notes |-> cell(table.rows[r], indices[7]),
                           status |-> cell(table.rows[r], indices[8])]],
              warnings |-> Opt(missing_required # <<>>,
                               Msg("stage2_missing_columns", <<>>,
                                   Join(missing_required, <<",", " ">>)))]

\* re.search(r"^\|\s*#\s*\|.*\|\s*Claim ID\s*\|", line, re.IGNORECASE): the first
\* cell is "#", and a cell after the second is "Claim ID"
IsKeyClaimsHeader(line) ==
    /\ line.k = "r"
    /\ Strip(line.cells[1]) = <<"#">>
    /\ \E j \in 3..Len(line.cells) : LowerStr(Strip(line.cells[j])) = <<"c","l","a","i","m"," ","i","d">>

\* the for loop over the lines after the separator: it stops at the first line
\* that is not a table row; row j gives a claim or nothing (continue)
KeyClaimOfRow(line, claim_id_idx, claim_type_idx, credence_idx) ==
    LET row_cells == _split_md_table_row(line)
        widest == CHOOSE m \in {claim_id_idx, claim_type_idx, credence_idx} :
                      \A n \in {claim_id_idx, claim_type_idx, credence_idx} : n <= m
    IN  IF Len(row_cells) < widest THEN <<>>
        ELSE LET claim_id == extract_claim_id(row_cells[claim_id_idx])
                 credence == float(row_cells[credence_idx])
             IN  IF claim_id = <<>> \/ ~credence.ok THEN <<>>
                 ELSE << [claim_id |-> claim_id,
                          claim_type |-> Strip(row_cells[claim_type_idx]),
                          credence |-> credence.value] >>

_extract_key_claim_rows(content) ==
    LET lines == content
        found == {index \in 1..Len(lines) : IsKeyClaimsHeader(lines[index])}
        header_index == IF found = {} THEN 0 ELSE Least(found)
    IN  IF header_index = 0 \/ header_index + 1 >= Len(lines) THEN <<>>
        ELSE IF ~_is_table_separator_row(_split_md_table_row(lines[header_index + 1]))
        THEN <<>>
        ELSE LET header_cells == _split_md_table_row(lines[header_index])
                 column_map == ColumnMap(header_cells)
                 claim_id_idx == _find_column_index(column_map, << <<"c","l","a","i","m"," ","i","d">> >>)
                 claim_type_idx == _find_column_index(column_map, << <<"t","y","p","e">> >>)
                 credence_idx ==
                     _find_column_index(column_map, << <<"c","r","e","d","e","n","c","e">>, <<"c","o","n","f">> >>)
                 stops == {j \in (header_index + 2)..Len(lines) : lines[j].k # "r"}
                 lastRow == IF stops = {} THEN Len(lines) ELSE Least(stops) - 1
             IN  IF claim_id_idx = 0 \/ claim_type_idx = 0 \/ credence_idx = 0
                 THEN <<>>
                 ELSE Concat([j \in 1..(lastRow - header_index - 1) |->
                                 KeyClaimOfRow(lines[header_index + 1 + j],
                                               claim_id_idx, claim_type_idx,
                                               credence_idx)])

\* \*{0,2}Rigor Level\*{0,2} against a whole cell, ignoring case
IsRigorLevelCell(c) ==
    \E a \in 0..2, b \in 0..2 :
        /\ Len(c) = a + 11 + b
        /\ AllIn(c, 1, a, {"*"})
        /\ LowerStr(SubSeq(c, a + 1, a + 11)) = <<"r","i","g","o","r"," ","l","e","v","e","l">>
        /\ AllIn(c, a + 12, Len(c), {"*"})
\* \[?REVIEWED\]? against a whole cell, ignoring case
IsReviewedCell(c) ==
    LowerStr(c) \in { <<"r","e","v","i","e","w","e","d">>, <<"[","r","e","v","i","e","w","e","d">>, <<"r","e","v","i","e","w","e","d","]">>, <<"[","r","e","v","i","e","w","e","d","]">> }
\* \|\s*\*{0,2}Rigor Level\*{0,2}\s*\|\s*\[?REVIEWED\]?\s*\| within a table row
RigorLevelRowReviewed(line) ==
    /\ line.k = "r"
    /\ \E i \in 1..(Len(line.cells) - 1) :
          /\ IsRigorLevelCell(Strip(line.cells[i]))
          /\ IsReviewedCell(Strip(line.cells[i + 1]))
\* \*{0,2}Rigor Level\*{0,2}\s*:\s*\[?REVIEWED\]? found in a text, ignoring case
RigorLevelFieldReviewed(s) ==
    LET low == LowerStr(s)
        ws(from, to) == AllIn(low, from, to, Space)
        starts == {i \in 1..(Len(low) - 10) :
                      low[i] = "r" /\ SubSeq(low, i, i + 10) = <<"r","i","g","o","r"," ","l","e","v","e","l">>}
    IN  \E i \in starts, stars \in 0..2, open \in 0..1 :
            \E colon \in (i + 11 + stars)..Len(low) :
                /\ AllIn(low, i + 11, i + 10 + stars, {"*"})
                /\ ws(i + 11 + stars, colon - 1)
                /\ low[colon] = ":"
                /\ \E word \in (colon + 1 + open)..(Len(low) - 7) :
                      /\ ws(colon + 1, word - 1 - open)
                      /\ open = 1 => low[word - 1] = "["
                      /\ SubSeq(low, word, word + 7) = <<"r","e","v","i","e","w","e","d">>
\* one of the two reviewed_patterns matches in this line
LineMarksReviewed(line) ==
    \/ RigorLevelRowReviewed(line)
    \/ RigorLevelFieldReviewed(line.text)
    \/ \E i \in 1..Len(line.cells) : RigorLevelFieldReviewed(line.cells[i])

\* the whole document is searched whatever the Metadata section holds
_is_reviewed_analysis_WholeDocument(content) ==
    \E i \in 1..Len(content) : LineMarksReviewed(content[i])

_is_reviewed_analysis(content) ==
    LET metadata_content == _extract_section_content(content, 2, METADATA)
        search_space == IF metadata_content # <<>> THEN metadata_content ELSE content
    IN  \E i \in 1..Len(search_space) : LineMarksReviewed(search_space[i])

(***************************************************************************)
(* validate_factual_verification_rigor.  Message kinds and their text:     *)
(*  stage2_missing_columns  "Key Factual Claims Verified table is missing  *)
(*                           required columns ...: {detail}"               *)
(*  no_crux                 "Analysis marked [REVIEWED] but Stage 2 does   *)
(*                           not identify any crux factual claim ..."      *)
(*  crux_missing_claim_id   "Crux factual verification row is missing      *)
(*                           Claim ID ..."                                 *)
(*  unknown_status          "Crux factual claim {claim_id} has unknown     *)
(*                           Status '{detail}' ..."                        *)
(*  not_attempted           "... crux factual claim {claim_id} is not      *)
(*                           attempted (Status=?)"                         *)
(*  lacks_search_notes      "Crux factual claim {claim_id} is unresolved   *)
(*                           but lacks Search Notes ..."                   *)
(*  lacks_external_source   "Crux factual claim {claim_id} marked          *)
(*                           verified/refuted but lacks an External Source *)
(*                           citation"                                     *)
(*  high_credence           "High-credence factual claim {claim_id} is not *)
(*                           verified/refuted ..."                         *)
(***************************************************************************)
CruxClaimId(row) ==
    IF extract_claim_id(row.claim_id) # <<>> THEN extract_claim_id(row.claim_id)
    ELSE IF Strip(row.claim_id) # <<>> THEN Strip(row.claim_id)
    ELSE <<"<","u","n","k","n","o","w","n",">">>

\* an unknown status is reported but the row is not treated as not attempted
CruxRowWarnings_NoFailClosed(row, reviewed) ==
    LET claim_id == CruxClaimId(row)
        status_raw == Strip(row.status)
        status == _normalize_status(status_raw)
    IN  Opt(extract_claim_id(row.claim_id) = <<>>,
            Msg("crux_missing_claim_id", <<>>, <<>>))
        \o Opt(reviewed /\ status \notin VALID_STAGE2_STATUSES,
               Msg("unknown_status", claim_id,
                   IF status_raw # <<>> THEN status_raw ELSE <<"<","b","l","a","n","k",">">>))
        \o Opt(reviewed /\ status = <<"?">>, Msg("not_attempted", claim_id, <<>>))
        \o Opt(reviewed /\ status \in { <<"n","f">>, <<"b","l","o","c","k","e","d">> } /\ Strip(row.search_notes) = <<>>,
               Msg("lacks_search_notes", claim_id, <<>>))
        \o Opt(reviewed /\ status \in { <<"o","k">>, <<"x">> } /\ Strip(row.external_source) = <<>>,
               Msg("lacks_external_source", claim_id, <<>>))

\* the row rules are applied whether or not the document is reviewed
CruxRowWarnings_Ungated(row, reviewed) ==
    LET claim_id == CruxClaimId(row)
        status_raw == Strip(row.status)
        unknown == _normalize_status(status_raw) \notin VALID_STAGE2_STATUSES
        status == IF unknown THEN <<"?">> ELSE _normalize_status(status_raw)
    IN  Opt(extract_claim_id(row.claim_id) = <<>>,
            Msg("crux_missing_claim_id", <<>>, <<>>))
        \o Opt(unknown, Msg("unknown_status", claim_id,
                            IF status_raw # <<>> THEN status_raw ELSE <<"<","b","l","a","n","k",">">>))
        \o Opt(status = <<"?">>, Msg("not_attempted", claim_id, <<>>))
        \o Opt(status \in { <<"n","f">>, <<"b","l","o","c","k","e","d">> } /\ Strip(row.search_notes) = <<>>,
               Msg("lacks_search_notes", claim_id, <<>>))
        \o Opt(status \in { <<"o","k">>, <<"x">> } /\ Strip(row.external_source) = <<>>,
               Msg("lacks_external_source", claim_id, <<>>))

\* the body of "for row in crux_rows"
CruxRowWarnings(row, reviewed) ==
    LET claim_id == CruxClaimId(row)
        status_raw == Strip(row.status)
        unknown == reviewed /\ _normalize_status(status_raw) \notin VALID_STAGE2_STATUSES
        status == IF unknown THEN <<"?">> ELSE _normalize_status(status_raw)
    IN  Opt(extract_claim_id(row.claim_id) = <<>>,
            Msg("crux_missing_claim_id", <<>>, <<>>))
        \o Opt(unknown, Msg("unknown_status", claim_id,
                            IF status_raw # <<>> THEN status_raw ELSE <<"<","b","l","a","n","k",">">>))
        \o Opt(reviewed /\ status = <<"?">>, Msg("not_attempted", claim_id, <<>>))
        \o Opt(reviewed /\ status \in { <<"n","f">>, <<"b","l","o","c","k","e","d">> } /\ Strip(row.search_notes) = <<>>,
               Msg("lacks_search_notes", claim_id, <<>>))
        \o Opt(reviewed /\ status \in { <<"o","k">>, <<"x">> } /\ Strip(row.external_source) = <<>>,
               Msg("lacks_external_source", claim_id, <<>>))

\* status_by_claim_id.get(claim_id, ""): the last Stage 2 row with this id
StatusByClaimId(stage2_rows, claim_id) ==
    LET at == {r \in 1..Len(stage2_rows) :
                  extract_claim_id(stage2_rows[r].claim_id) = claim_id}
    IN  IF at = {} THEN <<>>
        ELSE _normalize_status(stage2_rows[CHOOSE r \in at : \A q \in at : q <= r].status)

\* the first Stage 2 row with the id decides, not the last
HighCredenceWarnings_FirstRow(stage2_rows, key_claim_rows) ==
    LET first(claim_id) ==
            LET at == {r \in 1..Len(stage2_rows) :
                          extract_claim_id(stage2_rows[r].claim_id) = claim_id}
            IN  IF at = {} THEN <<>> ELSE _normalize_status(stage2_rows[Least(at)].status)
    IN  Concat([c \in 1..Len(key_claim_rows) |->
            Opt(/\ _normalize_claim_type(key_claim_rows[c].claim_type) = <<"F">>
                /\ key_claim_rows[c].credence >= 70
                /\ first(key_claim_rows[c].claim_id) \notin { <<"o","k">>, <<"x">> },
                Msg("high_credence", key_claim_rows[c].claim_id, <<>>))])

\* the body of "for claim in key_claim_rows"
HighCredenceWarnings(stage2_rows, key_claim_rows) ==
    Concat([c \in 1..Len(key_claim_rows) |->
        Opt(/\ _normalize_claim_type(key_claim_rows[c].claim_type) = <<"F">>
            /\ key_claim_rows[c].credence >= 70
            /\ StatusByClaimId(stage2_rows, key_claim_rows[c].claim_id)
                   \notin { <<"o","k">>, <<"x">> },
            Msg("high_credence", key_claim_rows[c].claim_id, <<>>))])

validate_factual_verification_rigor(content) ==
    LET reviewed == _is_reviewed_analysis(content)
        stage2 == _extract_stage2_factual_rows(content)
        stage2_rows == stage2.rows
        crux_rows == SelectSeq(stage2_rows, LAMBDA row : _is_crux_value(row.crux))
    IN  stage2.warnings
        \o Opt(reviewed /\ crux_rows = <<>>, Msg("no_crux", <<>>, <<>>))
        \o Concat([r \in 1..Len(crux_rows) |-> CruxRowWarnings(crux_rows[r], reviewed)])
        \o HighCredenceWarnings(stage2_rows, _extract_key_claim_rows(content))

(***************************************************************************)
(* validate_file and the checks it runs on the whole content.  A pattern   *)
(* is searched in the lines as they are written in the file.               *)
(***************************************************************************)
Hashes(level) == [i \in 1..level |-> "#"]
Render(line) ==
    IF line.k = "h" THEN Hashes(line.level) \o <<" ">> \o line.text
    ELSE IF line.k = "r" THEN <<"|", " ">> \o Join(line.cells, <<" ","|"," ">>) \o <<" ", "|">>
    ELSE line.text
Rendered(content) == [i \in 1..Len(content) |-> Render(content[i])]
Lowered(content) == [i \in 1..Len(content) |-> LowerStr(Render(content[i]))]

\* the positions where m starts in s
Occurrences(s, m) ==
    {i \in 1..(Len(s) - Len(m) + 1) : s[i] = m[1] /\ SubSeq(s, i, i + Len(m) - 1) = m}
Found(texts, m) == \E i \in 1..Len(texts) : Occurrences(texts[i], m) # {}

FULL_PROFILE_SECTIONS ==
    << <<"#","#"," ","M","e","t","a","d","a","t","a">>,
       <<"#","#"," ","S","t","a","g","e"," ","1",":"," ","D","e","s","c","r","i","p","t","i","v","e"," ","A","n","a","l","y","s","i","s">>,
       <<"#","#","#"," ","C","o","r","e"," ","T","h","e","s","i","s">>,
       <<"#","#","#"," ","K","e","y"," ","C","l","a","i","m","s">>,
       <<"#","#","#"," ","A","r","g","u","m","e","n","t"," ","S","t","r","u","c","t","u","r","e">>,
       <<"#","#","#"," ","T","h","e","o","r","e","t","i","c","a","l"," ","L","i","n","e","a","g","e">>,
       <<"#","#"," ","S","t","a","g","e"," ","2",":"," ","E","v","a","l","u","a","t","i","v","e"," ","A","n","a","l","y","s","i","s">>,
       <<"#","#","#"," ","K","e","y"," ","F","a","c","t","u","a","l"," ","C","l","a","i","m","s"," ","V","e","r","i","f","i","e","d">>,
       <<"#","#","#"," ","D","i","s","c","o","n","f","i","r","m","i","n","g"," ","E","v","i","d","e","n","c","e"," ","S","e","a","r","c","h">>,
       <<"#","#","#"," ","I","n","t","e","r","n","a","l"," ","T","e","n","s","i","o","n","s">>,
       <<"#","#","#"," ","P","e","r","s","u","a","s","i","o","n"," ","T","e","c","h","n","i","q","u","e","s">>,
       <<"#","#","#"," ","U","n","s","t","a","t","e","d"," ","A","s","s","u","m","p","t","i","o","n","s">>,
       <<"#","#"," ","S","t","a","g","e"," ","3",":"," ","D","i","a","l","e","c","t","i","c","a","l"," ","A","n","a","l","y","s","i","s">>,
       <<"#","#","#"," ","S","t","e","e","l","m","a","n","n","e","d"," ","A","r","g","u","m","e","n","t">>,
       <<"#","#","#"," ","S","t","r","o","n","g","e","s","t"," ","C","o","u","n","t","e","r","a","r","g","u","m","e","n","t","s">>,
       <<"#","#","#"," ","S","u","p","p","o","r","t","i","n","g"," ","T","h","e","o","r","i","e","s">>,
       <<"#","#","#"," ","C","o","n","t","r","a","d","i","c","t","i","n","g"," ","T","h","e","o","r","i","e","s">>,
       <<"#","#","#"," ","C","l","a","i","m"," ","S","u","m","m","a","r","y">>,
       <<"#","#","#"," ","C","l","a","i","m","s"," ","t","o"," ","R","e","g","i","s","t","e","r">> >>
QUICK_PROFILE_SECTIONS ==
    << <<"#","#"," ","M","e","t","a","d","a","t","a">>,
       <<"#","#"," ","S","u","m","m","a","r","y">>,
       <<"#","#","#"," ","C","l","a","i","m"," ","S","u","m","m","a","r","y">>,
       <<"#","#","#"," ","C","l","a","i","m","s"," ","t","o"," ","R","e","g","i","s","t","e","r">> >>
RIGOR_V1_SECTIONS == << <<"#","#","#"," ","C","o","r","r","e","c","t","i","o","n","s"," ","&"," ","U","p","d","a","t","e","s">> >>

\* a table pattern: a cell that is exactly `first`, and after it cells holding
\* the `needles`, each in a later cell than the one before
TablePattern(first, needles, name) == [first |-> first, needles |-> needles, name |-> name]
KEY_CLAIMS_TABLE ==
    TablePattern(<<"#">>, << <<"c","l","a","i","m">>, <<"c","l","a","i","m"," ","i","d">>, <<"t","y","p","e">>, <<"d","o","m","a","i","n">> >>,
                 <<"K","e","y"," ","C","l","a","i","m","s"," ","t","a","b","l","e">>)
CLAIM_SUMMARY_TABLE ==
    TablePattern(<<"i","d">>, << <<"t","y","p","e">>, <<"d","o","m","a","i","n">>, <<"e","v","i","d","e","n","c","e">>, <<"c","r","e","d","e","n","c","e">> >>,
                 <<"C","l","a","i","m"," ","S","u","m","m","a","r","y"," ","t","a","b","l","e">>)
KEY_CLAIMS_RIGOR_COLUMNS ==
    TablePattern(<<"#">>, << <<>>, <<"l","a","y","e","r">>, <<"a","c","t","o","r">>, <<"s","c","o","p","e">>, <<"q","u","a","n","t","i","f","i","e","r">> >>,
                 <<"K","e","y"," ","C","l","a","i","m","s"," ","t","a","b","l","e"," ","r","i","g","o","r"," ","c","o","l","u","m","n","s">>)
CLAIM_SUMMARY_RIGOR_COLUMNS ==
    TablePattern(<<"i","d">>, << <<>>, <<"l","a","y","e","r">>, <<"a","c","t","o","r">>, <<"s","c","o","p","e">>, <<"q","u","a","n","t","i","f","i","e","r">> >>,
                 <<"C","l","a","i","m"," ","S","u","m","m","a","r","y"," ","t","a","b","l","e"," ","r","i","g","o","r"," ","c","o","l","u","m","n","s">>)

RECURSIVE NeedlesInOrder(_, _, _)
NeedlesInOrder(cells, from, needles) ==
    IF needles = <<>> THEN TRUE
    ELSE LET hits == {j \in from..Len(cells) :
                         needles[1] = <<>> \/ Contains(LowerStr(cells[j]), needles[1])}
         IN  hits # {} /\ NeedlesInOrder(cells, Least(hits) + 1, Tail(needles))
RowMatches(line, pattern) ==
    /\ line.k = "r"
    /\ \E i \in 1..Len(line.cells) :
          /\ LowerStr(Strip(line.cells[i])) = pattern.first
          /\ NeedlesInOrder(line.cells, i + 1, pattern.needles)
TableFound(content, pattern) == \E i \in 1..Len(content) : RowMatches(content[i], pattern)

\* >\s*\*\*Claim types\*\*: and >\s*\*\*Evidence\*\*:
LegendFound(texts, label) ==
    \E i \in 1..Len(texts) : \E p \in Occurrences(texts[i], label) :
        \E q \in 1..(p - 1) : texts[i][q] = ">" /\ AllIn(texts[i], q + 1, p - 1, Space)
\* ```yaml\s*\nclaims:
YamlBlockFound(texts) ==
    \E i \in 1..Len(texts), j \in 1..Len(texts) :
        /\ i < j
        /\ \E p \in Occurrences(texts[i], <<BACKTICK,BACKTICK,BACKTICK,"y","a","m","l">>) :
              AllIn(texts[i], p + 7, Len(texts[i]), Space)
        /\ \A m \in (i + 1)..(j - 1) : Strip(texts[m]) = <<>>
        /\ StartsWith(texts[j], <<"c","l","a","i","m","s",":">>)
\* \*\*(Credence|Confidence) in Analysis\*\*:
CredenceFound(texts) ==
    Found(texts, <<"*","*","c","r","e","d","e","n","c","e"," ","i","n"," ","a","n","a","l","y","s","i","s","*","*",":">>) \/ Found(texts, <<"*","*","c","o","n","f","i","d","e","n","c","e"," ","i","n"," ","a","n","a","l","y","s","i","s","*","*",":">>)
\* \*\*Analysis Depth\*\*.*quick
QuickMarkerFound(texts) ==
    \E i \in 1..Len(texts) : \E p \in Occurrences(texts[i], <<"*","*","a","n","a","l","y","s","i","s"," ","d","e","p","t","h","*","*">>) :
        \E q \in Occurrences(texts[i], <<"q","u","i","c","k">>) : q >= p + 18

detect_profile(content) == IF QuickMarkerFound(Lowered(content)) THEN "quick" ELSE "full"

has_section(content, section) == Found(Lowered(content), LowerStr(section))

FRAMEWORK_INDICATORS == << <<"s","c","r","i","p","t","s","/">>, <<"t","e","s","t","s","/">>, <<"i","n","t","e","g","r","a","t","i","o","n","s","/">>, <<"m","e","t","h","o","d","o","l","o","g","y","/">> >>
check_framework_repo(path) ==
    LET hits == {k \in 1..Len(FRAMEWORK_INDICATORS) :
                    /\ Contains(path, <<"/">> \o FRAMEWORK_INDICATORS[k])
                    /\ ~Contains(path, <<"/","a","n","a","l","y","s","i","s","/">>)}
    IN  Opt(hits # {}, Msg("framework_repo", <<>>, FRAMEWORK_INDICATORS[Least(hits)]))

validate_sections(content, required_sections) ==
    LET texts == Lowered(content)
    IN  Concat([s \in 1..Len(required_sections) |->
            Opt(~Found(texts, LowerStr(required_sections[s])),
                Msg("missing_section", <<>>, required_sections[s]))])

validate_tables(content, required_tables) ==
    Concat([t \in 1..Len(required_tables) |->
        Opt(~TableFound(content, required_tables[t]),
            Msg("missing_table", <<>>, required_tables[t].name))])

\* the fourth element is the Credence score (full) or the quick marker (quick)
validate_elements(content, quick) ==
    LET texts == Lowered(content)
    IN  Opt(~LegendFound(texts, <<"*","*","c","l","a","i","m"," ","t","y","p","e","s","*","*",":">>),
            Msg("missing_element", <<>>, <<"C","l","a","i","m"," ","t","y","p","e","s"," ","l","e","g","e","n","d">>))
        \o Opt(~LegendFound(texts, <<"*","*","e","v","i","d","e","n","c","e","*","*",":">>),
               Msg("missing_element", <<>>, <<"E","v","i","d","e","n","c","e"," ","l","e","g","e","n","d">>))
        \o Opt(~YamlBlockFound(texts), Msg("missing_element", <<>>, <<"C","l","a","i","m","s"," ","Y","A","M","L"," ","b","l","o","c","k">>))
        \o (IF quick
            THEN Opt(~QuickMarkerFound(texts),
                     Msg("missing_element", <<>>, <<"A","n","a","l","y","s","i","s"," ","D","e","p","t","h",":"," ","q","u","i","c","k"," ","m","a","r","k","e","r">>))
            ELSE Opt(~CredenceFound(texts),
                     Msg("missing_element", <<>>, <<"C","r","e","d","e","n","c","e"," ","i","n"," ","A","n","a","l","y","s","i","s"," ","s","c","o","r","e">>)))

\* ([A-Z]+)-(\d{4})-(\d{3}) found somewhere in s
HoldsClaimId(s) ==
    \E i \in 1..(Len(s) - 9) :
        /\ s[i] \in Upper /\ s[i+1] = "-" /\ AllIn(s, i + 2, i + 5, Digit)
        /\ s[i+6] = "-" /\ AllIn(s, i + 7, i + 9, Digit)
validate_claim_ids(content) ==
    LET texts == Rendered(content)
    IN  Opt(\A i \in 1..Len(texts) : ~HoldsClaimId(texts[i]),
            Msg("no_claim_ids", <<>>, <<>>))
        \o Opt(Found(texts, <<"D","O","M","A","I","N","-","Y","Y","Y","Y","-","N","N","N">>), Msg("placeholder_claim_id", <<>>, <<>>))

validate_rigor_sections(content) ==
    Concat([s \in 1..Len(RIGOR_V1_SECTIONS) |->
        Opt(~has_section(content, RIGOR_V1_SECTIONS[s]),
            Msg("missing_rigor_section", <<>>, RIGOR_V1_SECTIONS[s]))])

validate_rigor_columns(content) ==
    LET basic(first) == \E i \in 1..Len(content) :
                            /\ content[i].k = "r"
                            /\ \E c \in 1..Len(content[i].cells) :
                                  LowerStr(Strip(content[i].cells[c])) = first
        check(pattern) == Opt(basic(pattern.first) /\ ~TableFound(content, pattern),
                              Msg("missing_rigor_columns", <<>>, pattern.name))
    IN  check(KEY_CLAIMS_RIGOR_COLUMNS) \o check(CLAIM_SUMMARY_RIGOR_COLUMNS)

VALID_LAYER_VALUES == { <<"A","S","S","E","R","T","E","D">>, <<"L","A","W","F","U","L">>, <<"P","R","A","C","T","I","C","E","D">>, <<"E","F","F","E","C","T">> }

\* [c.strip() for c in line.split('|')] of a table row
SplitOnBars(line) ==
    <<<<>>>> \o [c \in 1..Len(line.cells) |-> Strip(line.cells[c])] \o <<<<>>>>

\* the for loop of validate_layer_values from line i on; layer_col_idx 0 is None
RECURSIVE LayerScan(_, _, _, _)
LayerScan(lines, i, in_table, layer_col_idx) ==
    IF i > Len(lines) THEN <<>>
    ELSE IF lines[i].k # "r" THEN LayerScan(lines, i + 1, FALSE, 0)
    ELSE LET cells == SplitOnBars(lines[i])
             heads == {idx \in 1..Len(cells) : LowerStr(cells[idx]) = <<"l","a","y","e","r">>}
             table == in_table \/ heads # {}
             col == IF heads # {} THEN Least(heads) ELSE layer_col_idx
             cell_value == cells[col]
             checked == /\ table /\ col # 0 /\ col <= Len(cells)
                        /\ LowerStr(cell_value) # <<"l","a","y","e","r">>
                        /\ ~StartsWith(cell_value, <<"-">>)
                        /\ cell_value # <<>>
             invalid == /\ cell_value \notin VALID_LAYER_VALUES
                        /\ cell_value # <<"N","/","A">>
                        /\ ~Contains(cell_value, <<"A","S","S","E","R","T","E","D","/","L","A","W","F","U","L","/","P","R","A","C","T","I","C","E","D","/","E","F","F","E","C","T">>)
         IN  Opt(checked /\ invalid, Msg("invalid_layer", <<>>, cell_value))
             \o LayerScan(lines, i + 1, table, col)

validate_layer_values(content) ==
    IF \E i \in 1..Len(content) :
          /\ content[i].k = "r"
          /\ \E c \in 1..Len(content[i].cells) :
                LowerStr(Strip(content[i].cells[c])) = <<"l","a","y","e","r">>
    THEN LayerScan(content, 1, FALSE, 0)
    ELSE <<>>

ValidationResult(path, profile_, errors, warnings) ==
    [path |-> path, profile |-> profile_, errors |-> errors, warnings |-> warnings]

\* the rigor battery of validate_file
RigorWarnings(content) ==
    validate_rigor_sections(content)
    \o validate_rigor_columns(content)
    \o validate_layer_values(content)
    \o validate_factual_verification_rigor(content)

\* what validate_file reports before the rigor battery; profile_ "none" is None
BaseErrors(content, actual_profile) ==
    IF actual_profile = "quick"
    THEN validate_sections(content, QUICK_PROFILE_SECTIONS)
         \o validate_tables(content, <<CLAIM_SUMMARY_TABLE>>)
         \o validate_elements(content, TRUE)
    ELSE validate_sections(content, FULL_PROFILE_SECTIONS)
         \o validate_tables(content, <<KEY_CLAIMS_TABLE, CLAIM_SUMMARY_TABLE>>)
         \o validate_elements(content, FALSE)
BaseWarnings(path, content, profile_) ==
    check_framework_repo(path)
    \o Opt(profile_ # "none" /\ profile_ # detect_profile(content),
           Msg("profile_differs", <<>>, <<>>))
    \o validate_claim_ids(content)

\* with the rigor flag the battery is added to the errors and kept in the warnings
validate_file_Duplicating(path, content, profile_, rigor) ==
    LET actual_profile == IF profile_ # "none" THEN profile_ ELSE detect_profile(content)
    IN  ValidationResult(path, actual_profile,
            BaseErrors(content, actual_profile)
                \o (IF actual_profile = "full" /\ rigor THEN RigorWarnings(content) ELSE <<>>),
            BaseWarnings(path, content, profile_)
                \o (IF actual_profile = "full" THEN RigorWarnings(content) ELSE <<>>))

\* the file at path is readable and holds content; the rigor battery runs under
\* the full profile and goes to the errors with the rigor flag, else to the warnings
validate_file(path, content, profile_, rigor) ==
    LET actual_profile == IF profile_ # "none" THEN profile_ ELSE detect_profile(content)
    IN  ValidationResult(path, actual_profile,
            BaseErrors(content, actual_profile)
                \o (IF actual_profile = "full" /\ rigor THEN RigorWarnings(content) ELSE <<>>),
            BaseWarnings(path, content, profile_)
                \o (IF actual_profile = "full" /\ ~rigor THEN RigorWarnings(content) ELSE <<>>))

(***************************************************************************)
(* Document actions.                                                       *)
(***************************************************************************)
ValidateFile(rigor) ==
    /\ rigor \notin DOMAIN result
    /\ result' = result @@ (rigor :> validate_file(docPath, doc, profile, rigor))
    /\ UNCHANGED <<dbVars, doc, docPath, profile, factual, extraction, repo_root>>

ValidateFactual ==
    /\ ~factual.done
    /\ factual' = [done |-> TRUE, warnings |-> validate_factual_verification_rigor(doc)]
    /\ UNCHANGED <<dbVars, doc, docPath, profile, result, extraction, repo_root>>

(***************************************************************************)
(* Documents.  The lines follow the analysis template the validator is     *)
(* written for; the parts under study vary.                                *)
(***************************************************************************)
Separator(n) == R([i \in 1..n |-> <<"-","-","-">>])

KEY_CLAIMS_HEADER ==
    R(<< <<"#">>, <<"C","l","a","i","m">>, <<"C","l","a","i","m"," ","I","D">>, <<"T","y","p","e">>, <<"D","o","m","a","i","n">>, <<"E","v","i","d">>, <<"C","r","e","d","e","n","c","e">>,
         <<"L","a","y","e","r">>, <<"A","c","t","o","r">>, <<"S","c","o","p","e">>, <<"Q","u","a","n","t","i","f","i","e","r">> >>)
KeyRow(claim_id, claim_type, credence, layer) ==
    R(<< <<"1">>, <<"T","e","s","t"," ","c","l","a","i","m">>, claim_id, claim_type, <<"T","E","C","H">>, <<"E","2">>, credence,
         layer, <<"A","C","T","O","R">>, <<"s","c","o","p","e">>, <<"n","o","n","e">> >>)

STAGE2_HEADER ==
    << <<"C","l","a","i","m"," ","I","D">>, <<"C","l","a","i","m"," ","(","p","a","r","a","p","h","r","a","s","e","d",")">>, <<"C","r","u","x","?">>, <<"S","o","u","r","c","e"," ","S","a","y","s">>, <<"A","c","t","u","a","l">>,
       <<"E","x","t","e","r","n","a","l"," ","S","o","u","r","c","e">>, <<"S","e","a","r","c","h"," ","N","o","t","e","s">>, <<"S","t","a","t","u","s">> >>
\* the column set of documents written before the Claim ID and Search Notes columns
LEGACY_STAGE2_HEADER ==
    << <<"C","l","a","i","m">>, <<"C","r","u","x","?">>, <<"S","o","u","r","c","e"," ","S","a","y","s">>, <<"A","c","t","u","a","l">>, <<"E","x","t","e","r","n","a","l"," ","S","o","u","r","c","e">>, <<"S","t","a","t","u","s">> >>
\* the accepted other names: ID, Claim, Verification Source, Notes
ALIAS_STAGE2_HEADER ==
    << <<"I","D">>, <<"C","l","a","i","m">>, <<"C","r","u","x","?">>, <<"S","o","u","r","c","e"," ","S","a","y","s">>, <<"A","c","t","u","a","l">>,
       <<"V","e","r","i","f","i","c","a","t","i","o","n"," ","S","o","u","r","c","e">>, <<"N","o","t","e","s">>, <<"S","t","a","t","u","s">> >>
SHORT_STAGE2_HEADER == << <<"I","D">>, <<"C","l","a","i","m">>, <<"S","t","a","t","u","s">> >>

Stage2Row(claim_id, crux, external_source, search_notes, status) ==
    R(<< claim_id, <<"T","e","s","t"," ","c","l","a","i","m">>, crux, <<"X">>, <<"Y">>, external_source, search_notes,
         status >>)

URL == <<"h","t","t","p","s",":","/","/","e","x","a","m","p","l","e",".","o","r","g">>
NOTES == <<"s","e","a","r","c","h","e","d"," ","a","r","c","h","i","v","e","s">>
WRAPPED_TECH1 == <<"*","*","T","E","C","H","-","2","0","2","6","-","0","0","1","*","*">>
QUOTED_TECH1 == <<BACKTICK,"T","E","C","H","-","2","0","2","6","-","0","0","1",BACKTICK>>

RIGOR_LEVEL_REVIEWED == T(<<"*","*","R","i","g","o","r"," ","L","e","v","e","l","*","*",":"," ","[","R","E","V","I","E","W","E","D","]">>)
PLAIN_REVIEWED == T(<<"T","h","i","s"," ","l","i","n","e"," ","i","n","c","l","u","d","e","s"," ","[","R","E","V","I","E","W","E","D","]"," ","a","s"," ","p","l","a","i","n"," ","t","e","x","t",","," ","n","o","t"," ","m","e","t","a","d","a","t","a",".">>)
MetadataTable(rigor_level) ==
    << H(2, METADATA), BLANK, R(<< <<"F","i","e","l","d">>, <<"V","a","l","u","e">> >>), Separator(2),
       R(<< <<"*","*","R","i","g","o","r"," ","L","e","v","e","l","*","*">>, rigor_level >>), BLANK >>
REVIEWED_METADATA == MetadataTable(<<"[","R","E","V","I","E","W","E","D","]">>)
DRAFT_METADATA == MetadataTable(<<"[","D","R","A","F","T","]">>)

\* the Metadata section of a document: marked in its table, marked in a line,
\* marked DRAFT, holding other text only, empty, absent
GateMetadata ==
    { REVIEWED_METADATA,
      << H(2, METADATA), RIGOR_LEVEL_REVIEWED, BLANK >>,
      DRAFT_METADATA,
      << H(2, METADATA), T(<<"A","n","a","l","y","s","t"," ","n","o","t","e","s"," ","o","n","l","y",".">>), BLANK >>,
      << H(2, METADATA), BLANK >>,
      <<>> }
\* what the document holds in another section
GateDecoys ==
    { <<>>, <<PLAIN_REVIEWED>>, <<RIGOR_LEVEL_REVIEWED>>,
      << R(<< <<"R","i","g","o","r"," ","L","e","v","e","l">>, <<"R","E","V","I","E","W","E","D">> >>) >> }

Stage1(key_rows) ==
    << H(2, <<"S","t","a","g","e"," ","1",":"," ","D","e","s","c","r","i","p","t","i","v","e"," ","A","n","a","l","y","s","i","s">>), H(3, <<"C","o","r","e"," ","T","h","e","s","i","s">>), T(<<"T","h","e","s","i","s",".">>),
       H(3, <<"K","e","y"," ","C","l","a","i","m","s">>), BLANK, KEY_CLAIMS_HEADER, Separator(11) >>
    \o key_rows
    \o << BLANK, H(3, <<"A","r","g","u","m","e","n","t"," ","S","t","r","u","c","t","u","r","e">>), H(3, <<"T","h","e","o","r","e","t","i","c","a","l"," ","L","i","n","e","a","g","e">>) >>
Stage2(header, rows) ==
    << H(2, <<"S","t","a","g","e"," ","2",":"," ","E","v","a","l","u","a","t","i","v","e"," ","A","n","a","l","y","s","i","s">>), H(3, KEY_FACTUAL_CLAIMS_VERIFIED), BLANK,
       R(header), Separator(Len(header)) >>
    \o rows
    \o << BLANK, H(3, <<"D","i","s","c","o","n","f","i","r","m","i","n","g"," ","E","v","i","d","e","n","c","e"," ","S","e","a","r","c","h">>) >>

GateDoc(metadata, decoy, rows) ==
    << H(1, <<"S","o","u","r","c","e"," ","A","n","a","l","y","s","i","s",":"," ","T","e","s","t">>), BLANK >>
    \o metadata
    \o Stage1(<< KeyRow(TECH1, <<"[","F","]">>, <<"0",".","8","0">>, <<"A","S","S","E","R","T","E","D">>) >>)
    \o Stage2(STAGE2_HEADER, rows)
    \o << H(2, <<"N","o","t","e","s">>) >> \o decoy

GateStatuses == { <<"o","k">>, <<"[","x","]">>, <<BACKTICK,"n","f",BACKTICK>>, <<"b","l","o","c","k","e","d">>, <<"?">>, <<"t","o","d","o">>, <<>> }
GateRows ==
    { Stage2Row(claim_id, crux, external_source, search_notes, status) :
        claim_id \in {TECH1, <<>>}, crux \in { <<"Y">>, <<"N">> },
        external_source \in {<<>>, URL}, search_notes \in {<<>>, NOTES},
        status \in GateStatuses }
GateSecondRows ==
    { <<>>,
      << Stage2Row(TECH1, <<"Y">>, <<>>, <<>>, <<"n","f">>) >>,
      << Stage2Row(GOV2, <<BACKTICK,"y",BACKTICK>>, URL, <<>>, <<"O","K">>) >> }

InitDocWith(content, file_path, profile_) ==
    /\ doc = content
    /\ docPath = file_path
    /\ profile = profile_
    /\ result = <<>>
    /\ factual = [done |-> FALSE, warnings |-> <<>>]
    /\ extraction = NoExtraction
    /\ repo_root = NoRepo

DATA_PATH == <<"/","d","a","t","a","/","a","n","a","l","y","s","i","s","/","s","o","u","r","c","e","s","/","t","e","s","t",".","m","d">>
FRAMEWORK_PATH == <<"/","f","r","a","m","e","w","o","r","k","/","s","c","r","i","p","t","s","/","t","e","s","t",".","m","d">>

InitGate ==
    /\ InitStore
    /\ \E metadata \in GateMetadata, decoy \in GateDecoys,
          row \in GateRows, second \in GateSecondRows :
          InitDocWith(GateDoc(metadata, decoy, <<row>> \o second), DATA_PATH, "none")
NextGate == ValidateFactual
SpecGate == InitGate /\ [][NextGate]_vars

\* Key Claims rows against Stage 2 rows
KeyIds == {TECH1, WRAPPED_TECH1}
KeyTypes == { <<"[","F","]">>, <<"F">>, <<BACKTICK,"[","f","]",BACKTICK>>, <<"[","T","]">>, <<"*","*","F","*","*">> }
KeyCredences == { <<"0",".","6","9">>, <<"0",".","7">>, <<"0",".","8","5">>, <<"h","i","g","h">> }
KeySecondRows == { <<>>, << KeyRow(GOV2, <<"[","F","]">>, <<"0",".","9","0">>, <<"A","S","S","E","R","T","E","D">>) >> }
KeyStage2Rows ==
    { Stage2Row(claim_id, crux, URL, NOTES, status) :
        claim_id \in {TECH1, QUOTED_TECH1, GOV2}, crux \in { <<"Y">>, <<"N">> },
        status \in { <<"o","k">>, <<"[","x","]">>, <<"n","f">>, <<>>, <<"*","*","O","K","*","*">> } }
KeyStage2SecondRows ==
    { <<>>,
      << Stage2Row(TECH1, <<"N">>, URL, NOTES, <<"o","k">>) >>,
      << Stage2Row(TECH1, <<"N">>, URL, NOTES, <<"n","f">>) >> }
KeyDoc(metadata, key_rows, rows) ==
    << H(1, <<"S","o","u","r","c","e"," ","A","n","a","l","y","s","i","s",":"," ","T","e","s","t">>), BLANK >>
    \o metadata \o Stage1(key_rows) \o Stage2(STAGE2_HEADER, rows)

InitKey ==
    /\ InitStore
    /\ \E metadata \in {REVIEWED_METADATA, DRAFT_METADATA},
          claim_id \in KeyIds, claim_type \in KeyTypes, credence \in KeyCredences,
          key_second \in KeySecondRows,
          row \in KeyStage2Rows, second \in KeyStage2SecondRows :
          InitDocWith(KeyDoc(metadata,
                             << KeyRow(claim_id, claim_type, credence, <<"A","S","S","E","R","T","E","D">>) >>
                                 \o key_second,
                             <<row>> \o second),
                      DATA_PATH, "none")
NextKey == ValidateFactual
SpecKey == InitKey /\ [][NextKey]_vars

\* whole documents for validate_file
CLAIM_SUMMARY_HEADER ==
    << <<"I","D">>, <<"T","y","p","e">>, <<"D","o","m","a","i","n">>, <<"E","v","i","d","e","n","c","e">>, <<"C","r","e","d","e","n","c","e">>, <<"L","a","y","e","r">>, <<"A","c","t","o","r">>,
       <<"S","c","o","p","e">>, <<"Q","u","a","n","t","i","f","i","e","r">>, <<"C","l","a","i","m">> >>
CLAIM_SUMMARY_ROW ==
    << TECH1, <<"[","F","]">>, <<"T","E","C","H">>, <<"E","2">>, <<"0",".","8","0">>, <<"A","S","S","E","R","T","E","D">>, <<"A","C","T","O","R">>, <<"s","c","o","p","e">>,
       <<"n","o","n","e">>, <<"T","e","s","t"," ","c","l","a","i","m">> >>
\* the table before the Layer, Actor, Scope and Quantifier columns were added
PLAIN_CLAIM_SUMMARY_HEADER ==
    << <<"I","D">>, <<"T","y","p","e">>, <<"D","o","m","a","i","n">>, <<"E","v","i","d","e","n","c","e">>, <<"C","r","e","d","e","n","c","e">>, <<"C","l","a","i","m">> >>
PLAIN_CLAIM_SUMMARY_ROW ==
    << TECH1, <<"[","F","]">>, <<"T","E","C","H">>, <<"E","2">>, <<"0",".","8","0">>, <<"T","e","s","t"," ","c","l","a","i","m">> >>

FileStage2 ==
    { [header |-> STAGE2_HEADER,
       rows |-> << Stage2Row(TECH1, <<"Y">>, <<>>, <<>>, <<"?">>) >>],
      [header |-> ALIAS_STAGE2_HEADER,
       rows |-> << Stage2Row(TECH1, <<"Y">>, URL, <<>>, <<"o","k">>) >>],
      [header |-> LEGACY_STAGE2_HEADER,
       rows |-> << R(<< <<"T","e","s","t"," ","c","l","a","i","m">>, <<"Y">>, <<"X">>, <<"Y">>, URL, <<"o","k">> >>) >>],
      [header |-> SHORT_STAGE2_HEADER,
       rows |-> << R(<< TECH1, <<"T","e","s","t"," ","c","l","a","i","m">>, <<"o","k">> >>) >>] }

\* rigorous: the document has the rigor-v1 section, columns and Layer values
FileDoc(metadata, quick, stage2, rigorous) ==
    << H(1, <<"S","o","u","r","c","e"," ","A","n","a","l","y","s","i","s",":"," ","T","e","s","t">>), BLANK,
       T(<<">"," ","*","*","C","l","a","i","m"," ","t","y","p","e","s","*","*",":"," ",BACKTICK,"[","F","]",BACKTICK," ","f","a","c","t",","," ",BACKTICK,"[","T","]",BACKTICK," ","t","h","e","o","r","y">>),
       T(<<">"," ","*","*","E","v","i","d","e","n","c","e","*","*",":"," ","*","*","E","1","*","*"," ","s","t","r","o","n","g",","," ","*","*","E","2","*","*"," ","m","o","d","e","r","a","t","e">>), BLANK >>
    \o metadata
    \o (IF quick THEN << T(<<"*","*","A","n","a","l","y","s","i","s"," ","D","e","p","t","h","*","*",":"," ","q","u","i","c","k">>), BLANK >> ELSE <<>>)
    \o Stage1(<< KeyRow(TECH1, <<"[","F","]">>, <<"0",".","8","0">>,
                        IF rigorous THEN <<"A","S","S","E","R","T","E","D">> ELSE <<"B","O","G","U","S">>) >>)
    \o Stage2(stage2.header, stage2.rows)
    \o << H(3, <<"I","n","t","e","r","n","a","l"," ","T","e","n","s","i","o","n","s">>), H(3, <<"P","e","r","s","u","a","s","i","o","n"," ","T","e","c","h","n","i","q","u","e","s">>),
          H(3, <<"U","n","s","t","a","t","e","d"," ","A","s","s","u","m","p","t","i","o","n","s">>),
          H(2, <<"S","t","a","g","e"," ","3",":"," ","D","i","a","l","e","c","t","i","c","a","l"," ","A","n","a","l","y","s","i","s">>), H(3, <<"S","t","e","e","l","m","a","n","n","e","d"," ","A","r","g","u","m","e","n","t">>),
          H(3, <<"S","t","r","o","n","g","e","s","t"," ","C","o","u","n","t","e","r","a","r","g","u","m","e","n","t","s">>), H(3, <<"S","u","p","p","o","r","t","i","n","g"," ","T","h","e","o","r","i","e","s">>),
          H(3, <<"C","o","n","t","r","a","d","i","c","t","i","n","g"," ","T","h","e","o","r","i","e","s">>), H(3, <<"C","l","a","i","m"," ","S","u","m","m","a","r","y">>), BLANK >>
    \o (IF rigorous
        THEN << R(CLAIM_SUMMARY_HEADER), Separator(10), R(CLAIM_SUMMARY_ROW) >>
        ELSE << R(PLAIN_CLAIM_SUMMARY_HEADER), Separator(6), R(PLAIN_CLAIM_SUMMARY_ROW) >>)
    \o << BLANK, H(3, <<"C","l","a","i","m","s"," ","t","o"," ","R","e","g","i","s","t","e","r">>), BLANK, T(<<BACKTICK,BACKTICK,BACKTICK,"y","a","m","l">>), T(<<"c","l","a","i","m","s",":">>),
          T(<<" "," ","-"," ","i","d",":"," ","\"","T","E","C","H","-","2","0","2","6","-","0","0","1","\"">>), T(<<BACKTICK,BACKTICK,BACKTICK>>), BLANK >>
    \o (IF rigorous THEN << H(3, <<"C","o","r","r","e","c","t","i","o","n","s"," ","&"," ","U","p","d","a","t","e","s">>), BLANK >> ELSE <<>>)
    \o << T(<<"*","*","C","r","e","d","e","n","c","e"," ","i","n"," ","A","n","a","l","y","s","i","s","*","*",":"," ","0",".","8","0">>) >>

InitFile ==
    /\ InitStore
    /\ \E metadata \in {REVIEWED_METADATA, DRAFT_METADATA}, quick \in BOOLEAN,
          stage2 \in FileStage2, rigorous \in BOOLEAN,
          file_path \in {DATA_PATH, FRAMEWORK_PATH},
          profile_ \in {"none", "full", "quick"} :
          InitDocWith(FileDoc(metadata, quick, stage2, rigorous), file_path, profile_)
NextFile == \E rigor \in BOOLEAN : ValidateFile(rigor)
SpecFile == InitFile /\ [][NextFile]_vars

(***************************************************************************)
(* Properties of the store and of validate_db.                             *)
(***************************************************************************)
CountCode(findings, code) ==
    Cardinality({i \in 1..Len(findings) : findings[i].code = code})
HasCode(findings, code) == CountCode(findings, code) > 0
Validated == last.op = "validate_db"

\* for every stored claim C and stored source S:
\* S.id in C.source_ids  <=>  C.id in S.claims_extracted
TwoWayBacklink ==
    \A i \in 1..Len(claims), j \in 1..Len(sources) :
        InSeq(sources[j].id, claims[i].source_ids)
            <=> InSeq(claims[i].id, sources[j].claims_extracted)

\* C1: when validate_db has run its content checks on the snapshot and returned
\* neither SOURCE_BACKLINK_MISSING nor SOURCE_CLAIM_NOT_LISTED, every stored claim
\* and stored source are linked in both directions or in neither.
C1_CleanBacklinkFindingsImplySymmetry ==
    (/\ Validated
     /\ ~HasCode(last.findings, "SOURCE_BACKLINK_MISSING")
     /\ ~HasCode(last.findings, "SOURCE_CLAIM_NOT_LISTED"))
        => TwoWayBacklink

\* a validated snapshot with a cited, listing source and no backlink finding,
\* although other findings were produced
C1_Witness ==
    /\ Validated
    /\ ~HasCode(last.findings, "SOURCE_BACKLINK_MISSING")
    /\ ~HasCode(last.findings, "SOURCE_CLAIM_NOT_LISTED")
    /\ Len(claims) = 2
    /\ \E i \in 1..Len(claims), j \in 1..Len(sources) :
          /\ InSeq(sources[j].id, claims[i].source_ids)
          /\ InSeq(claims[i].id, sources[j].claims_extracted)
    /\ \E i \in 1..Len(claims), j \in 1..Len(sources) :
          ~InSeq(sources[j].id, claims[i].source_ids)
    /\ last.findings # <<>>

\* some stored claim of type [P] has no prediction record keyed by its id
SomePredictionMissing ==
    \E i \in 1..Len(claims) :
        claims[i].type = "[P]" /\ ~HasPrediction(predictions, claims[i].id)

\* C3: validate_db returns exactly one PREDICTIONS_MISSING finding if some stored
\* [P] claim has no prediction record keyed by its id, and none otherwise.
C3_PredictionsMissingExactlyWhenSomeMissing ==
    Validated =>
        CountCode(last.findings, "PREDICTIONS_MISSING")
            = (IF SomePredictionMissing THEN 1 ELSE 0)

\* two [P] claims, one with and one without a prediction record: one finding
C3_Witness ==
    /\ Validated
    /\ CountCode(last.findings, "PREDICTIONS_MISSING") = 1
    /\ \E i \in 1..Len(claims) :
          claims[i].type = "[P]" /\ HasPrediction(predictions, claims[i].id)
    /\ \E i \in 1..Len(claims) :
          claims[i].type = "[P]" /\ ~HasPrediction(predictions, claims[i].id)

NewSourcesExact ==
    \A j \in 1..Len(sources') :
        ~HasId(sources, sources'[j].id)
            => SeqSet(sources'[j].claims_extracted) = Citing(claims, sources'[j].id)

Reported(code, message) ==
    \E i \in 1..Len(last.findings) :
        last.findings[i].code = code /\ last.findings[i].message = message
\* the codes of the per-claim and per-chain findings
ROW_CODES ==
    {"CLAIM_ID_FORMAT", "CLAIM_DOMAIN_MISMATCH", "CLAIM_DOMAIN_INVALID",
     "CLAIM_TYPE_INVALID", "CLAIM_EVIDENCE_INVALID", "CLAIM_CREDENCE_INVALID",
     "CLAIM_TEXT_EMPTY", "CLAIM_SOURCE_MISSING", "CLAIM_REL_MISSING",
     "CLAIM_CHAIN_MISSING", "CHAIN_ID_FORMAT", "CHAIN_CREDENCE_INVALID",
     "CHAIN_CLAIM_MISSING"}
\* the per-claim and per-chain findings whose message starts with this id
FindingsAbout(id) ==
    SelectSeq(last.findings, LAMBDA f : f.code \in ROW_CODES /\ f.message[1] = id)

\* every per-claim rule the row violates has its finding
ClaimRulesReported(c) ==
    /\ c.domain # SplitFirst(c.id, "-")
          => Reported("CLAIM_DOMAIN_MISMATCH", <<c.id, SplitFirst(c.id, "-"), c.domain>>)
    /\ c.domain \notin VALID_DOMAINS => Reported("CLAIM_DOMAIN_INVALID", <<c.id, c.domain>>)
    /\ c.type \notin ALLOWED_CLAIM_TYPES => Reported("CLAIM_TYPE_INVALID", <<c.id, c.type>>)
    /\ c.evidence_level \notin ALLOWED_EVIDENCE_LEVELS
          => Reported("CLAIM_EVIDENCE_INVALID", <<c.id, c.evidence_level>>)
    /\ ~(0 <= c.credence /\ c.credence <= 100)
          => Reported("CLAIM_CREDENCE_INVALID", <<c.id, c.credence>>)
    /\ Strip(c.text) = <<>> => Reported("CLAIM_TEXT_EMPTY", <<c.id>>)
    /\ \A k \in 1..Len(c.source_ids) :
          ~HasId(sources, c.source_ids[k])
              => Reported("CLAIM_SOURCE_MISSING", <<c.id, c.source_ids[k]>>)
    /\ \A f \in SeqSet(REL_FIELDS) : \A k \in 1..Len(c[f]) :
          ~HasId(claims, c[f][k]) => Reported("CLAIM_REL_MISSING", <<c.id, f, c[f][k]>>)
    /\ (c.part_of_chain # <<>> /\ ~HasId(chains, c.part_of_chain))
          => Reported("CLAIM_CHAIN_MISSING", <<c.id, c.part_of_chain>>)

\* the chain's credence and member-existence violations have their findings
ChainRulesReported(ch) ==
    /\ ~(0 <= ch.credence /\ ch.credence <= 100)
          => Reported("CHAIN_CREDENCE_INVALID", <<ch.id, ch.credence>>)
    /\ \A k \in 1..Len(ch.claims) :
          ~HasId(claims, ch.claims[k])
              => Reported("CHAIN_CLAIM_MISSING", <<ch.id, ch.claims[k]>>)

CountMsg(msgs, kind, claim_id) ==
    Cardinality({i \in 1..Len(msgs) : msgs[i].kind = kind /\ msgs[i].claim_id = claim_id})
CountKind(msgs, kind) == Cardinality({i \in 1..Len(msgs) : msgs[i].kind = kind})
CountRows(rows, Test(_)) == Cardinality({r \in 1..Len(rows) : Test(rows[r])})

\* the rows of the document's Stage 2 table, and those marked Crux? = Y
Stage2Rows == _extract_stage2_factual_rows(doc).rows
CruxRows == SelectSeq(Stage2Rows, LAMBDA row : row.crux \in { <<"Y">>, <<BACKTICK,"y",BACKTICK>> })
\* the validator takes the document as marked REVIEWED
MarkedReviewed == _is_reviewed_analysis(doc)

\* what a Status cell says, read off the ways of writing it: one of the five
\* statuses, or "unknown"
WrittenStatus(status) ==
    CASE status \in { <<"o","k">>, <<"O","K">>, <<"*","*","O","K","*","*">> } -> "ok"
      [] status \in { <<"x">>, <<"[","x","]">> } -> "x"
      [] status \in { <<"n","f">>, <<BACKTICK,"n","f",BACKTICK>> } -> "nf"
      [] status = <<"b","l","o","c","k","e","d">> -> "blocked"
      [] status = <<"?">> -> "?"
      [] OTHER -> "unknown"
\* how a message quotes the raw Status
Quoted(status) == IF status = <<>> THEN <<"<","b","l","a","n","k",">">> ELSE status

\* C5: in a document marked REVIEWED, every crux row whose Status is none of
\* ok, x, nf, blocked, ? gets an "unknown Status" warning quoting the raw Status
\* ("<blank>" when empty) and is then treated as "?": it gets the "not attempted"
\* warning too, and no Search-Notes or External-Source warning.
C5_UnknownStatusFailsClosed ==
    (factual.done /\ MarkedReviewed) =>
        LET crux == CruxRows
        IN  \A r \in 1..Len(crux) :
            LET row == crux[r]
                id == CruxClaimId(row)
                sameId(q) == CruxClaimId(q) = id
            IN  WrittenStatus(row.status) = "unknown" =>
                  /\ Cardinality({i \in 1..Len(factual.warnings) :
                        factual.warnings[i] = Msg("unknown_status", id, Quoted(row.status))})
                       = CountRows(crux, LAMBDA q : sameId(q) /\ q.status = row.status)
                  /\ CountMsg(factual.warnings, "not_attempted", id)
                       = CountRows(crux, LAMBDA q :
                             sameId(q) /\ WrittenStatus(q.status) \in {"unknown", "?"})
                  /\ CountMsg(factual.warnings, "lacks_search_notes", id)
                       = CountRows(crux, LAMBDA q :
                             /\ sameId(q) /\ WrittenStatus(q.status) \in {"nf", "blocked"}
                             /\ q.search_notes = <<>>)
                  /\ CountMsg(factual.warnings, "lacks_external_source", id)
                       = CountRows(crux, LAMBDA q :
                             /\ sameId(q) /\ WrittenStatus(q.status) \in {"ok", "x"}
                             /\ q.external_source = <<>>)

\* a reviewed document with a crux row of Status "todo" that has neither Search
\* Notes nor an External Source: the unknown-status and not-attempted warnings
\* are there, quoting "todo", and no other warning names the row's claim
C5_Witness ==
    /\ factual.done /\ MarkedReviewed
    /\ LET crux == CruxRows
       IN  /\ Len(crux) = 1
           /\ crux[1].status = <<"t","o","d","o">> /\ crux[1].claim_id = TECH1
           /\ crux[1].search_notes = <<>> /\ crux[1].external_source = <<>>
    /\ \E i \in 1..Len(factual.warnings) :
          factual.warnings[i] = Msg("unknown_status", TECH1, <<"t","o","d","o">>)
    /\ CountMsg(factual.warnings, "not_attempted", TECH1) = 1
    /\ CountMsg(factual.warnings, "lacks_search_notes", TECH1) = 0
    /\ CountMsg(factual.warnings, "lacks_external_source", TECH1) = 0

GATED_KINDS == {"unknown_status", "not_attempted", "lacks_search_notes",
                "lacks_external_source", "no_crux"}
GatedWarningProduced ==
    \E i \in 1..Len(factual.warnings) : factual.warnings[i].kind \in GATED_KINDS
\* the lines of the Metadata section, and a Rigor Level field of value REVIEWED
MetadataSection == _extract_section_content(doc, 2, METADATA)
HoldsReviewedField(lines) == \E i \in 1..Len(lines) : LineMarksReviewed(lines[i])

\* C6 as claimed: with or without a Metadata section, the REVIEWED-gated warnings
\* are produced only when a Rigor Level field of value REVIEWED is inside the
\* Metadata section.
C6_Original_GateOnlyFromMetadata ==
    (factual.done /\ GatedWarningProduced) => HoldsReviewedField(MetadataSection)

\* C6 amended: when the document has a Metadata section with content, the
\* REVIEWED-gated warnings are produced only when a Rigor Level field of value
\* REVIEWED is inside that section; when it has no Metadata section, or an empty
\* one, only when such a field is somewhere in the document.  The bare text
\* REVIEWED enables them nowhere.
C6_GateFromMetadataOrWholeDocument ==
    (factual.done /\ GatedWarningProduced) =>
        IF MetadataSection # <<>>
        THEN HoldsReviewedField(MetadataSection)
        ELSE HoldsReviewedField(doc)

\* a document whose Metadata section says DRAFT and whose Notes section holds a
\* Rigor Level field of value REVIEWED, with a crux row of unknown Status: no
\* gated warning is produced
C6_Witness ==
    /\ factual.done
    /\ MetadataSection # <<>> /\ ~HoldsReviewedField(MetadataSection)
    /\ \E i \in 1..Len(doc) : doc[i] = RIGOR_LEVEL_REVIEWED
    /\ \E r \in 1..Len(CruxRows) : CruxRows[r].status = <<"t","o","d","o">>
    /\ ~GatedWarningProduced

\* C8: in a document marked REVIEWED, a crux row of status nf or blocked gets a
\* "lacks Search Notes" warning iff its Search Notes cell is empty, and one of
\* status ok or x gets a "lacks an External Source citation" warning iff its
\* External Source cell is empty; in a document not marked REVIEWED no
\* unknown-status, not-attempted, Search-Notes, External-Source or no-crux
\* warning is produced.
C8_NotesAndSourceRulesGatedByReview ==
    factual.done =>
        IF MarkedReviewed
        THEN LET crux == CruxRows
             IN  \A r \in 1..Len(crux) :
                LET id == CruxClaimId(crux[r])
                    sameId(q) == CruxClaimId(q) = id
                IN  /\ CountMsg(factual.warnings, "lacks_search_notes", id)
                         = CountRows(crux, LAMBDA q :
                               /\ sameId(q) /\ WrittenStatus(q.status) \in {"nf", "blocked"}
                               /\ q.search_notes = <<>>)
                    /\ CountMsg(factual.warnings, "lacks_external_source", id)
                         = CountRows(crux, LAMBDA q :
                               /\ sameId(q) /\ WrittenStatus(q.status) \in {"ok", "x"}
                               /\ q.external_source = <<>>)
        ELSE ~GatedWarningProduced

\* a reviewed document with two crux rows of the same claim, both nf: the one
\* without Search Notes gets the warning, the one with them does not
C8_Witness ==
    /\ factual.done /\ MarkedReviewed
    /\ LET crux == CruxRows
       IN  /\ Len(crux) = 2
           /\ crux[1].claim_id = TECH1 /\ crux[2].claim_id = TECH1
           /\ crux[1].status = <<BACKTICK,"n","f",BACKTICK>> /\ crux[1].search_notes = NOTES
           /\ crux[2].status = <<"n","f">> /\ crux[2].search_notes = <<>>
    /\ CountMsg(factual.warnings, "lacks_search_notes", TECH1) = 1
    /\ CountMsg(factual.warnings, "lacks_external_source", TECH1) = 0


\* the ways a Key Claims row writes the type F
WrittenF(claim_type) == claim_type \in { <<"[","F","]">>, <<"F">>, <<BACKTICK,"[","f","]",BACKTICK>>, <<"*","*","F","*","*">> }
\* the rows of the Key Claims table that have a claim id and a credence
KeyClaimRows == _extract_key_claim_rows(doc)
\* the claim's last Stage 2 row says ok or x
VerifiedInStage2(rows, claim_id) ==
    LET at == {r \in 1..Len(rows) : extract_claim_id(rows[r].claim_id) = claim_id}
    IN  /\ at # {}
        /\ WrittenStatus(rows[CHOOSE r \in at : \A q \in at : q <= r].status) \in {"ok", "x"}

\* C7: reviewed or not, a Key Claims row with a claim id, a type written as F and
\* a credence of 0.7 or more gets the "high-credence factual claim is not
\* verified/refuted" warning iff the Stage 2 status of its claim is neither ok
\* nor x (no Stage 2 row counts as unverified); rows of lower credence or of
\* another type get none.
C7_HighCredenceFactualNeedsVerification ==
    factual.done =>
        LET key == KeyClaimRows
            rows == Stage2Rows
        IN  \A c \in 1..Len(key) :
                CountMsg(factual.warnings, "high_credence", key[c].claim_id)
                    = IF VerifiedInStage2(rows, key[c].claim_id) THEN 0
                      ELSE CountRows(key, LAMBDA k :
                               /\ k.claim_id = key[c].claim_id
                               /\ WrittenF(k.claim_type)
                               /\ k.credence >= 70)

\* a draft document: the claim written `[f]` at credence 0.7 has a Stage 2 row
\* saying ok followed by one saying nf and is warned about; the second claim,
\* [F] at 0.90, has no Stage 2 row and is warned about too
C7_Witness ==
    /\ factual.done /\ ~MarkedReviewed
    /\ LET key == KeyClaimRows
           rows == Stage2Rows
       IN  /\ Len(key) = 2 /\ Len(rows) = 2
           /\ key[1].claim_id = TECH1 /\ key[1].claim_type = <<BACKTICK,"[","f","]",BACKTICK>>
           /\ key[1].credence = 70
           /\ key[2].claim_id = GOV2
           /\ rows[1].claim_id = QUOTED_TECH1 /\ rows[1].status = <<"*","*","O","K","*","*">>
           /\ rows[2].claim_id = TECH1 /\ rows[2].status = <<"n","f">>
    /\ CountMsg(factual.warnings, "high_credence", TECH1) = 1
    /\ CountMsg(factual.warnings, "high_credence", GOV2) = 1

(***************************************************************************)
(* Properties of validate_file.                                            *)
(***************************************************************************)
\* the kinds of the rigor battery's messages
RIGOR_KINDS ==
    {"missing_rigor_section", "missing_rigor_columns", "invalid_layer",
     "stage2_missing_columns", "no_crux", "crux_missing_claim_id", "unknown_status",
     "not_attempted", "lacks_search_notes", "lacks_external_source", "high_credence"}
IsRigorMessage(m) == m.kind \in RIGOR_KINDS
Occurs(msgs, m) == Cardinality({i \in 1..Len(msgs) : msgs[i] = m})
SameCollection(s, t) ==
    /\ Len(s) = Len(t)
    /\ \A i \in 1..Len(s) : Occurs(s, s[i]) = Occurs(t, s[i])
BothRun == DOMAIN result = BOOLEAN

\* C9: validate_file with rigor=True and with rigor=False return the same
\* messages taken together; the rigor battery's messages are in the errors with
\* rigor=True and in the warnings with rigor=False, every other message is where
\* it is in both, and under the quick profile the two results are the same.
C9_RigorFlagOnlyMovesRigorMessages ==
    BothRun =>
        LET strict == result[TRUE]
            lax == result[FALSE]
            battery == SelectSeq(lax.warnings, IsRigorMessage)
        IN  /\ strict.profile = lax.profile
            /\ SameCollection(strict.errors \o strict.warnings,
                              lax.errors \o lax.warnings)
            /\ strict.errors = lax.errors \o battery
            /\ lax.warnings = strict.warnings \o battery
            /\ SelectSeq(strict.warnings, IsRigorMessage) = <<>>
            /\ SelectSeq(lax.errors, IsRigorMessage) = <<>>
            /\ strict.profile = "quick" => strict = lax

\* a full-profile document under the framework path, without the rigor-v1
\* section and columns, with a bad Layer value and Stage 2 findings: every part
\* of the battery has moved, and the path warning has stayed
C9_Witness ==
    /\ BothRun
    /\ result[TRUE].profile = "full"
    /\ \A kind \in {"missing_rigor_section", "missing_rigor_columns", "invalid_layer",
                    "stage2_missing_columns", "high_credence"} :
          /\ CountKind(result[TRUE].errors, kind) > 0
          /\ CountKind(result[FALSE].warnings, kind) > 0
    /\ CountKind(result[TRUE].warnings, "framework_repo") = 1
    /\ CountKind(result[FALSE].warnings, "framework_repo") = 1
    /\ result[TRUE] # result[FALSE]

\* the required columns a Stage 2 header row lacks, read off the header
ExpectedMissing(header) ==
    CASE header = LEGACY_STAGE2_HEADER -> <<"C","l","a","i","m"," ","I","D",","," ","S","e","a","r","c","h"," ","N","o","t","e","s">>
      [] header = SHORT_STAGE2_HEADER ->
             <<"C","r","u","x","?",","," ","S","o","u","r","c","e"," ","S","a","y","s",","," ","A","c","t","u","a","l",","," ","E","x","t","e","r","n","a","l"," ","S","o","u","r","c","e",","," ","S","e","a","r","c","h"," ","N","o","t","e","s">>
      [] header \in {STAGE2_HEADER, ALIAS_STAGE2_HEADER} -> <<>>
Stage2Header ==
    _parse_first_markdown_table(
        _extract_section_content(doc, 3, KEY_FACTUAL_CLAIMS_VERIFIED)).headers
MissingColumnFindings(msgs) ==
    SelectSeq(msgs, LAMBDA m : m.kind = "stage2_missing_columns")

\* C10 as claimed: a Stage 2 table lacking required columns produces one finding
\* naming exactly the missing columns, and validate_file returns it among the
\* warnings and never among the errors, whatever the rigor flag.
C10_Original_MissingColumnsAlwaysWarning ==
    \A rigor \in DOMAIN result :
        LET expected == ExpectedMissing(Stage2Header)
        IN  (expected # <<>> /\ result[rigor].profile = "full") =>
                /\ MissingColumnFindings(result[rigor].errors) = <<>>
                /\ MissingColumnFindings(result[rigor].warnings)
                      = << Msg("stage2_missing_columns", <<>>, expected) >>

\* C10 amended: under the full profile a Stage 2 table lacking required columns
\* produces one finding naming exactly the missing columns; validate_file
\* returns it among the warnings when rigor is false and among the errors when
\* rigor is true.  A complete table, also one using the other accepted column
\* names, and any table under the quick profile, produce no such finding.
C10_MissingColumnsFindingFollowsRigor ==
    \A rigor \in DOMAIN result :
        LET expected == ExpectedMissing(Stage2Header)
            finding == IF expected # <<>> /\ result[rigor].profile = "full"
                       THEN << Msg("stage2_missing_columns", <<>>, expected) >>
                       ELSE <<>>
        IN  /\ MissingColumnFindings(result[rigor].errors)
                  = (IF rigor THEN finding ELSE <<>>)
            /\ MissingColumnFindings(result[rigor].warnings)
                  = (IF rigor THEN <<>> ELSE finding)

\* the legacy table validated both ways under the full profile: the finding
\* names Claim ID and Search Notes, once in the errors and once in the warnings
C10_Witness ==
    /\ BothRun
    /\ Stage2Header = LEGACY_STAGE2_HEADER
    /\ MissingColumnFindings(result[TRUE].errors)
          = << Msg("stage2_missing_columns", <<>>, <<"C","l","a","i","m"," ","I","D",","," ","S","e","a","r","c","h"," ","N","o","t","e","s">>) >>
    /\ MissingColumnFindings(result[FALSE].warnings)
          = << Msg("stage2_missing_columns", <<>>, <<"C","l","a","i","m"," ","I","D",","," ","S","e","a","r","c","h"," ","N","o","t","e","s">>) >>

(***************************************************************************)
(* extract_claim_id on one table cell.                                     *)
(***************************************************************************)
ExtractClaimId ==
    /\ ~extraction.done
    /\ extraction' = [cell_text |-> extraction.cell_text, done |-> TRUE,
                      claim_id |-> extract_claim_id(extraction.cell_text)]
    /\ UNCHANGED <<dbVars, doc, docPath, profile, result, factual, repo_root>>

\* ids of the form LETTERS-YYYY-NNN
A000 == <<"A","-","0","0","0","0","-","0","0","0">>
CellIds == {TECH1, GOV2, A000}
\* link targets: a relative path, a URL with a parenthesis in it, a target that
\* ends with a wrapper marker, a one-character target, the empty target
LinkTargets ==
    { <<".",".","/","c",".","m","d">>,
      <<"w","i","k","i","/","F","_","(","b",")">>,
      <<"a","_">>,
      <<"#">>,
      <<>> }
MarkdownLink(label, target) == <<"[">> \o label \o <<"]", "(">> \o target \o <<")">>
Wrappers == {<<>>} \cup SeqSet(MARKDOWN_WRAPPER_MARKERS)
Whitespace == {<<>>, <<" ">>, <<"\t", " ">>}
\* X bare or linked, in zero or one wrapper pair, in whitespace
Cell(id, linked, target, wrapper, left, right) ==
    left \o wrapper \o (IF linked THEN MarkdownLink(id, target) ELSE id) \o wrapper \o right
CellOf(id) ==
    { Cell(id, linked, target, wrapper, left, right) :
        linked \in BOOLEAN, target \in LinkTargets, wrapper \in Wrappers,
        left \in Whitespace, right \in Whitespace }

InitExtract ==
    /\ InitStore
    /\ doc = <<>>
    /\ docPath = <<>>
    /\ profile = "none"
    /\ result = <<>>
    /\ factual = [done |-> FALSE, warnings |-> <<>>]
    /\ repo_root = NoRepo
    /\ \E id \in CellIds : \E cell_text \in CellOf(id) :
          extraction = [cell_text |-> cell_text, done |-> FALSE, claim_id |-> <<>>]
NextExtract == ExtractClaimId
SpecExtract == InitExtract /\ [][NextExtract]_vars

\* C11: for every id X of the form LETTERS-YYYY-NNN, extract_claim_id returns X for
\* X bare or written as a markdown link [X](target) with any target, in zero or one
\* symmetric wrapper pair and surrounded by optional whitespace.
C11_ExtractsBareOrLinkedId ==
    extraction.done =>
        \A id \in CellIds :
            extraction.cell_text \in CellOf(id) => extraction.claim_id = id

\* the cell [X](wiki/F_(b)) has been processed
C11_LinkWithParenthesisTried ==
    /\ extraction.done
    /\ extraction.cell_text = MarkdownLink(TECH1, <<"w","i","k","i","/","F","_","(","b",")">>)

(***************************************************************************)
(* validate_db on snapshots whose credences may be null.                   *)
(***************************************************************************)
Chain(id, credence, members) == [id |-> id, credence |-> credence, claims |-> members]
\* one source, one chain, claim TECH-2026-001 and, if gov_stored, GOV-2026-002
CredenceSnapshot(tech_credence, gov_credence, gov_stored, chain) ==
    LET withSource == add_source(EmptyDb, Source("s1", <<>>)).db
        withChain == add_chain(withSource, chain).db
        withTech == add_claim(withChain,
                        [Claim(TECH1, "[F]", <<"s1">>) EXCEPT !.credence = tech_credence],
                        FALSE).db
    IN  IF gov_stored
        THEN add_claim(withTech,
                 [Claim(GOV2, "[F]", <<"s1">>) EXCEPT !.credence = gov_credence], FALSE).db
        ELSE withTech
ChainMembers == {<<>>, <<TECH1>>, <<GOV2>>, <<TECH1, GOV2>>, <<FOO1>>, <<FOO1, TECH1>>}

InitLoaded(db) ==
    /\ claims = db.claims
    /\ sources = db.sources
    /\ chains = db.chains
    /\ predictions = db.predictions
    /\ analysis_logs = db.analysis_logs
    /\ tables = db.tables
    /\ env = ExplicitPath
    /\ last = NoCall
    /\ InitDoc

NullCredences == {None, 30, 150}
InitNull ==
    \E tech_credence \in NullCredences, gov_credence \in NullCredences,
       gov_stored \in BOOLEAN, id \in {CHAIN1, BADCHAIN},
       credence \in NullCredences, members \in ChainMembers :
        InitLoaded(CredenceSnapshot(tech_credence, gov_credence, gov_stored,
                                    Chain(id, credence, members)))
NextNull == ValidateDb
SpecNull == InitNull /\ [][NextNull]_vars

\* C12: validate_db returns a list of findings and never raises, whatever the records
\* hold; a null credence of a chain or of a claim is reported as
\* CHAIN_CREDENCE_INVALID / CLAIM_CREDENCE_INVALID and the remaining checks (here
\* the member-exists check of the chain) still report.
C12_NullCredenceReportedNotRaised ==
    Validated =>
        /\ last.ret = "findings"
        /\ \A i \in 1..Len(chains) :
              /\ (CHAIN_ID_RE(chains[i].id) /\ chains[i].credence = None)
                     => HasCode(last.findings, "CHAIN_CREDENCE_INVALID")
              /\ (CHAIN_ID_RE(chains[i].id) /\ InSeq(FOO1, chains[i].claims))
                     => HasCode(last.findings, "CHAIN_CLAIM_MISSING")
        /\ \A i \in 1..Len(claims) :
              claims[i].credence = None
                  => HasCode(last.findings, "CLAIM_CREDENCE_INVALID")

(***************************************************************************)
(* validate_db: locating the store, opening it and finding its tables.     *)
(***************************************************************************)
\* an analysis log as add_analysis_log stores it
AnalysisLog(id, status, source_id) ==
    [id |-> id, status |-> status, tool |-> "manual", source_id |-> source_id,
     claims_extracted |-> <<>>, claims_updated |-> <<>>, stages_json |-> "",
     duration_seconds |-> None, cost_usd |-> None]

Environments ==
    [db_path : BOOLEAN, REALITYCHECK_DATA : BOOLEAN, default_db : BOOLEAN,
     project_root : BOOLEAN, detected : BOOLEAN,
     connects : BOOLEAN, readable : BOOLEAN, logs_readable : BOOLEAN]

\* a store holding the tables named, with rows in those it holds: a claim citing a
\* stored source, a chain naming an unknown claim, a log with an unknown status
StoreWith(names) ==
    LET full == CredenceSnapshot(30, 30, FALSE, Chain(CHAIN1, 30, <<FOO1>>))
        Rows(table, rows) == IF table \in names THEN rows ELSE <<>>
    IN  [claims |-> Rows("claims", full.claims),
         sources |-> Rows("sources", full.sources),
         chains |-> Rows("chains", full.chains),
         predictions |-> <<>>,
         analysis_logs |-> Rows("analysis_logs", <<AnalysisLog("ANALYSIS-1", "done", "s1")>>),
         tables |-> names]

InitEnv ==
    /\ \E names \in SUBSET ALL_TABLES :
          LET db == StoreWith(names)
          IN  /\ claims = db.claims
              /\ sources = db.sources
              /\ chains = db.chains
              /\ predictions = db.predictions
              /\ analysis_logs = db.analysis_logs
              /\ tables = db.tables
    /\ env \in Environments
    /\ last = NoCall
    /\ InitDoc
NextEnv == ValidateDb
SpecEnv == InitEnv /\ [][NextEnv]_vars

\* C13: called with no explicit path while REALITYCHECK_DATA is unset, the default
\* database path does not exist and no project database is auto-detected,
\* validate_db returns exactly one finding, the ERROR REALITYCHECK_DATA_MISSING,
\* before it opens the store or reads any table.
C13_MissingStoreIsOneErrorBeforeOpening ==
    (/\ Validated
     /\ ~env.db_path
     /\ ~env.REALITYCHECK_DATA
     /\ ~env.default_db
     /\ ~(env.project_root /\ env.detected))
        => /\ last.ret = "findings"
           /\ Len(last.findings) = 1
           /\ last.findings[1].level = "ERROR"
           /\ last.findings[1].code = "REALITYCHECK_DATA_MISSING"
           /\ last.effects = <<>>

\* a project root was found but holds no database, and validate_db has returned
C13_Witness ==
    /\ Validated
    /\ ~env.db_path /\ ~env.REALITYCHECK_DATA /\ ~env.default_db
    /\ env.project_root /\ ~env.detected
    /\ tables = ALL_TABLES
    /\ HasCode(last.findings, "REALITYCHECK_DATA_MISSING")

\* validate_db got a connection to the store
Opened == Validated /\ InSeq("get_db", last.effects) /\ env.connects
RequiredTables == {"claims", "sources", "chains", "predictions", "contradictions",
                   "definitions"}

\* C14: if a required table is absent from the opened store, validate_db returns
\* exactly one finding, an ERROR listing exactly the missing required tables, and
\* reads no table; the absence of analysis_logs alone never causes that finding:
\* the analysis-log checks are skipped and all other checks still run.
C14_MissingTablesIsOneErrorLogsOptional ==
    Opened =>
        /\ (RequiredTables \ tables # {})
              => /\ last.ret = "findings"
                 /\ Len(last.findings) = 1
                 /\ last.findings[1].level = "ERROR"
                 /\ last.findings[1].code = "DB_TABLES_MISSING"
                 /\ SeqSet(last.findings[1].message) = RequiredTables \ tables
                 /\ last.effects = <<"get_db", "get_table_names">>
        /\ (tables = ALL_TABLES \ {"analysis_logs"})
              => /\ ~HasCode(last.findings, "DB_TABLES_MISSING")
                 /\ ~InSeq("list_analysis_logs", last.effects)
                 /\ env.readable
                       => /\ last.findings = ContentFindings(DB)
                          /\ HasCode(last.findings, "CHAIN_CLAIM_MISSING")
                          /\ HasCode(last.findings, "CLAIM_NO_EMBEDDING")

\* two required tables and analysis_logs are absent; validate_db has returned
C14_Witness ==
    /\ Opened
    /\ tables = ALL_TABLES \ {"analysis_logs", "sources", "chains"}
    /\ HasCode(last.findings, "DB_TABLES_MISSING")

\* only analysis_logs is absent; the other checks have reported
C14_WitnessLogsAbsent ==
    /\ Opened
    /\ tables = ALL_TABLES \ {"analysis_logs"}
    /\ HasCode(last.findings, "CHAIN_CLAIM_MISSING")

(***************************************************************************)
(* validate_db on snapshots of one chain and its member claims.            *)
(***************************************************************************)
MemberCredences == {29, 30, 90}
ChainCredences == {30, 31, 50, 150}
InitMin ==
    \E tech_credence \in MemberCredences, gov_credence \in MemberCredences,
       gov_stored \in BOOLEAN, id \in {CHAIN1, BADCHAIN},
       credence \in ChainCredences, members \in ChainMembers :
        InitLoaded(CredenceSnapshot(tech_credence, gov_credence, gov_stored,
                                    Chain(id, credence, members)))
NextMin == ValidateDb
SpecMin == InitMin /\ [][NextMin]_vars

\* the stored claims a chain names
StoredMembers(chain) == {j \in 1..Len(claims) : InSeq(claims[j].id, chain.claims)}
\* a - b > 0.01 for stored credences a and b, which are whole numbers of 2^-30
ExceedsByMoreThanHundredth(a, b) == Float32(a) - Float32(b) > 2^30 \div 100

\* C15: for every chain with a well-formed id and at least one member naming a stored
\* claim, validate_db emits CHAIN_CREDENCE_EXCEEDS_MIN iff the chain's (stored)
\* credence is greater than the least credence of its stored members plus 0.01,
\* i.e. exceeds some stored member's credence by more than 0.01; members that are
\* not stored do not count, and a chain with no stored member gets no such warning.
C15_ExceedsMinWarningIffAboveTolerance ==
    Validated =>
        \A i \in 1..Len(chains) :
            CHAIN_ID_RE(chains[i].id) =>
                /\ last.ret = "findings"
                /\ CountCode(last.findings, "CHAIN_CREDENCE_EXCEEDS_MIN") <= 1
                /\ HasCode(last.findings, "CHAIN_CREDENCE_EXCEEDS_MIN")
                      <=> \E j \in StoredMembers(chains[i]) :
                             ExceedsByMoreThanHundredth(chains[i].credence,
                                                        claims[j].credence)

\* a chain stored as 0.30 over an unknown member and a claim stored as 0.29 is warned
C15_Witness ==
    /\ Validated
    /\ \E i \in 1..Len(chains) :
          /\ chains[i].id = CHAIN1
          /\ chains[i].credence = 30
          /\ chains[i].claims = <<FOO1, TECH1>>
    /\ \E j \in 1..Len(claims) : claims[j].id = TECH1 /\ claims[j].credence = 29
    /\ HasCode(last.findings, "CHAIN_CREDENCE_EXCEEDS_MIN")

(***************************************************************************)
(* validate_db on snapshots of prediction records.                         *)
(***************************************************************************)
Prediction(claim_id, source_id, status) ==
    [claim_id |-> claim_id, source_id |-> source_id, status |-> status]
\* records keyed by a stored [P] claim, a stored [F] claim or no stored claim, naming a
\* stored source, an unknown one or none (""), with an allowed or an unknown status
PredictionRecords ==
    { Prediction(claim_id, source_id, status) :
        claim_id \in {TECH1, GOV2, FOO1}, source_id \in {"s1", "s9", ""},
        status \in {"[P?]", "[P+]", "[P]"} }
PredictionTables ==
    { <<p>> : p \in PredictionRecords }
        \cup { <<p, q>> : p \in {r \in PredictionRecords : r.claim_id = TECH1},
                          q \in {r \in PredictionRecords : r.claim_id # TECH1} }
InitPred ==
    \E table \in PredictionTables :
        InitLoaded([claims |-> <<[Claim(TECH1, "[P]", <<"s1">>) EXCEPT !.embedding = TRUE],
                                 [Claim(GOV2, "[F]", <<"s1">>) EXCEPT !.embedding = TRUE]>>,
                    sources |-> <<Source("s1", <<TECH1, GOV2>>)>>,
                    chains |-> <<>>,
                    predictions |-> table,
                    analysis_logs |-> <<>>,
                    tables |-> ALL_TABLES])
NextPred == ValidateDb
SpecPred == InitPred /\ [][NextPred]_vars

\* the ERROR findings of the per-prediction checks about the record keyed by claim_id
PredictionErrors(claim_id) ==
    {i \in 1..Len(last.findings) :
        /\ last.findings[i].level = "ERROR"
        /\ last.findings[i].code \in {"PREDICTION_STATUS_INVALID", "PREDICTION_CLAIM_MISSING",
                                      "PREDICTION_CLAIM_NOT_P", "PREDICTION_SOURCE_MISSING"}
        /\ last.findings[i].message[1] = claim_id}
PredictionSound(p) ==
    /\ \E j \in 1..Len(claims) : claims[j].id = p.claim_id /\ claims[j].type = "[P]"
    /\ \E j \in 1..Len(sources) : sources[j].id = p.source_id
    /\ p.status \in ALLOWED_PREDICTION_STATUSES

\* C16: validate_db returns no ERROR about a prediction record only if its claim_id
\* names a stored [P] claim, its source_id names a stored source and its status is an
\* allowed code; a record failing any of these, an empty source_id included, gets at
\* least one ERROR.
C16_UnsoundPredictionGetsError ==
    Validated =>
        \A i \in 1..Len(predictions) :
            ~PredictionSound(predictions[i])
                => PredictionErrors(predictions[i].claim_id) # {}

(***************************************************************************)
(* A store built through add_claim, update_claim and delete_claim only.    *)
(***************************************************************************)
NextClaims ==
    \/ \E claim \in ClaimInputs : AddClaim(claim)
    \/ \E id \in ClaimIds, u \in ClaimUpdates : UpdateClaim(id, u)
    \/ \E id \in ClaimIds : DeleteClaim(id)
    \/ ValidateDb
SpecClaims == Init /\ [][NextClaims]_vars

\* C17: after any sequence of add_claim, update_claim (which may change the type)
\* and delete_claim, no prediction record is keyed by a stored claim whose type is
\* not [P], and validate_db never reports PREDICTION_CLAIM_NOT_P.
C17_NoPredictionForNonPredictionClaim ==
    /\ \A i \in 1..Len(predictions), j \in 1..Len(claims) :
          predictions[i].claim_id = claims[j].id => claims[j].type = "[P]"
    /\ Validated => ~HasCode(last.findings, "PREDICTION_CLAIM_NOT_P")

(***************************************************************************)
(* delete_claim.                                                           *)
(***************************************************************************)
Deleted(claim_id) == last.op = "delete_claim" /\ last.arg = claim_id
ListedBy(srcTbl, claim_id) ==
    {srcTbl[j].id : j \in {k \in 1..Len(srcTbl) : InSeq(claim_id, srcTbl[k].claims_extracted)}}

\* C18 as stated: after delete_claim(C) returns, no claim row with id C exists, no
\* source's claims_extracted contains C and no prediction record is keyed by C.
C18_Original_NoTraceOfDeletedClaim ==
    \A id \in ClaimIds :
        Deleted(id) =>
            /\ ~HasId(claims, id)
            /\ ListedBy(sources, id) = {}
            /\ ~HasPrediction(predictions, id)

\* C18: after delete_claim(C) returns, no claim row with id C exists, no source that C
\* cited lists C in claims_extracted (a source lists C afterwards only if it listed C
\* before without being cited by C), and no prediction record is keyed by C.
C18_DeleteRemovesRowCitedBacklinksAndPrediction ==
    [][\A id \in ClaimIds :
          (last'.op = "delete_claim" /\ last'.arg = id) =>
              /\ ~HasId(claims', id)
              /\ ~HasPrediction(predictions', id)
              /\ \A s \in ListedBy(sources', id) :
                    /\ s \in ListedBy(sources, id)
                    /\ ~(HasId(claims, id) /\ InSeq(s, RowById(claims, id).source_ids))]_vars

\* delete_claim(TECH-2026-001) has returned, the claim is gone, and a source that
\* listed it without being cited still lists it next to a claim that cites it
C18_Witness ==
    /\ Deleted(TECH1)
    /\ ~HasId(claims, TECH1)
    /\ "s1" \in ListedBy(sources, TECH1)
    /\ "s1" \in ListedBy(sources, GOV2)
    /\ HasId(claims, GOV2)

(***************************************************************************)
(* Claim versions under add_claim, update_claim and the import command.    *)
(***************************************************************************)
\* a record without one of its fields, as a YAML file may give it
Without(record, field) == [f \in DOMAIN record \ {field} |-> record[f]]
\* imported claims: with no version field, or exported at version 2
ImportRecords ==
    { Without(Claim(id, type, <<"s1">>), "version") : id \in ClaimIds, type \in {"[F]", "[P]"} }
        \cup { [Claim(id, "[F]", <<"s1">>) EXCEPT !.version = 2] : id \in ClaimIds }
\* updates of update_claim, one of which sets the version itself
FieldUpdates == {[credence |-> 90], [type |-> "[P]"], [text |-> <<"u">>], [version |-> 1]}
\* claims given to add_claim
AddedClaims == {Claim(id, type, l) : id \in ClaimIds, type \in {"[F]", "[P]"},
                                    l \in {<<>>, <<"s1">>}}

UpdateClaimFields(claim_id, updates) ==
    /\ HasId(claims, claim_id) => RowById(claims, claim_id).version < MaxVersion
    /\ Commit("update_claim", [claim_id |-> claim_id, updates |-> updates],
              update_claim(DB, claim_id, updates), <<>>)

ImportClaim(record, on_conflict, generate_embedding) ==
    /\ ~HasId(claims, record.id) => Len(claims) < MaxRows
    /\ Commit("import", [record |-> record, on_conflict |-> on_conflict],
              import_claim(DB, record, on_conflict, generate_embedding), <<>>)

NextImport ==
    \/ \E claim \in AddedClaims : AddClaim(claim)
    \/ \E id \in ClaimIds, u \in FieldUpdates : UpdateClaimFields(id, u)
    \/ \E record \in ImportRecords, on_conflict \in {"error", "skip", "update"},
          generate_embedding \in BOOLEAN :
          ImportClaim(record, on_conflict, generate_embedding)
SpecImport == Init /\ [][NextImport]_vars

VersionOf(tbl, claim_id) == RowById(tbl, claim_id).version
UpdatedBy(l, claim_id) ==
    l.op = "update_claim" /\ l.ret = "True" /\ l.arg.claim_id = claim_id
ImportUpdated(l, claim_id) ==
    l.op = "import" /\ l.ret = "updated" /\ l.arg.record.id = claim_id

\* C19 as stated: update_claim and import with --on-conflict update each increase the
\* version of the claim they change by exactly 1.
C19_Original_EveryChangeAddsOne ==
    [][\A id \in ClaimIds :
          (UpdatedBy(last', id) \/ ImportUpdated(last', id))
              => VersionOf(claims', id) = VersionOf(claims, id) + 1]_vars

\* C19: update_claim with updates that do not themselves set version increases the
\* claim's version by exactly 1 (so n such updates of a claim added with version 1
\* give 1+n, and none decreases it); import with --on-conflict update does not
\* increment: it stores the version of the imported record, 1 if it carries none.
C19_UpdateAddsOneImportStoresRecordVersion ==
    [][\A id \in ClaimIds :
          /\ (UpdatedBy(last', id) /\ "version" \notin DOMAIN last'.arg.updates)
                => VersionOf(claims', id) = VersionOf(claims, id) + 1
          /\ ImportUpdated(last', id)
                => VersionOf(claims', id) =
                       IF "version" \in DOMAIN last'.arg.record
                       THEN last'.arg.record.version ELSE 1]_vars

\* a claim at version 2 after update_claim has been re-imported from a record with
\* no version field and is at version 1
C19_Witness ==
    /\ ImportUpdated(last, TECH1)
    /\ "version" \notin DOMAIN last.arg.record
    /\ HasId(claims, TECH1)
    /\ VersionOf(claims, TECH1) = 1
    /\ HasId(claims, GOV2)
    /\ VersionOf(claims, GOV2) = 2

(***************************************************************************)
(* validate_db on snapshots of analysis logs.                              *)
(***************************************************************************)
LogId1 == "ANALYSIS-2026-001"
LogId2 == "ANALYSIS-2026-002"
\* logs of every allowed status and an unknown one, naming a stored source, an
\* unknown one or none ("")
LogsWithId(id) ==
    { [AnalysisLog(id, status, source_id) EXCEPT
          !.tool = tool, !.claims_extracted = extracted, !.stages_json = stages_json,
          !.duration_seconds = duration] :
        status \in VALID_ANALYSIS_STATUSES \cup {"done"},
        source_id \in {"s1", "s9", ""},
        tool \in {"manual", "vim"},
        extracted \in {<<>>, <<FOO1>>},
        stages_json \in {"", "{}", "{"},
        duration \in {None, -5} }
PlainLogs(id) ==
    { AnalysisLog(id, status, source_id) :
        status \in {"completed", "draft"}, source_id \in {"s1", "s9", ""} }
LogTables ==
    { <<log>> : log \in LogsWithId(LogId1) }
        \cup { <<log, second>> : log \in PlainLogs(LogId1), second \in PlainLogs(LogId2) }
InitLog ==
    \E table \in LogTables :
        InitLoaded([claims |-> <<[Claim(TECH1, "[F]", <<"s1">>) EXCEPT !.embedding = TRUE]>>,
                    sources |-> <<Source("s1", <<TECH1>>)>>,
                    chains |-> <<>>,
                    predictions |-> <<>>,
                    analysis_logs |-> table,
                    tables |-> ALL_TABLES])
NextLog == ValidateDb
SpecLog == InitLog /\ [][NextLog]_vars

SourceMissingFor(log) ==
    \E i \in 1..Len(last.findings) :
        /\ last.findings[i].code = "ANALYSIS_SOURCE_MISSING"
        /\ last.findings[i].message[1] = log.id
NamesStoredSource(log) == \E j \in 1..Len(sources) : sources[j].id = log.source_id

\* C20: for every analysis log whose status is completed, validate_db emits
\* ANALYSIS_SOURCE_MISSING unless the log's source_id names a stored source (an empty
\* or absent source_id does not resolve); logs of any other status never get it.
C20_CompletedLogNeedsStoredSource ==
    Validated =>
        \A i \in 1..Len(analysis_logs) :
            SourceMissingFor(analysis_logs[i])
                <=> (analysis_logs[i].status = "completed"
                        /\ ~NamesStoredSource(analysis_logs[i]))

(***************************************************************************)
(* The levels of the findings of validate_db, over every kind of snapshot. *)
(***************************************************************************)
\* sources of a known or unknown type, with a reliability in range, out of range or
\* not set, listing a stored claim, an unknown claim or none
InitSourceDefects ==
    \E type \in {"PAPER", "WIKI"}, reliability \in {None, 50, 150},
       listed \in {<<>>, <<TECH1>>, <<FOO1>>, <<GOV2, FOO1>>},
       cited \in {<<>>, <<"s1">>, <<"s9">>}, embedding \in BOOLEAN :
        InitLoaded([claims |-> <<[Claim(TECH1, "[F]", cited) EXCEPT !.embedding = embedding],
                                 Claim(GOV2, "[P]", <<"s1">>)>>,
                    sources |-> <<[Source("s1", listed) EXCEPT
                                      !.type = type, !.reliability = reliability]>>,
                    chains |-> <<>>,
                    predictions |-> <<>>,
                    analysis_logs |-> <<>>,
                    tables |-> ALL_TABLES])
InitAll ==
    \/ InitSnap
    \/ InitSourceDefects
    \/ InitNull
    \/ InitMin
    \/ InitPred
    \/ InitLog
    \/ InitEnv
NextAll == ValidateDb
SpecAll == InitAll /\ [][NextAll]_vars

WARN_CODES == {"CLAIM_NO_EMBEDDING", "CHAIN_CREDENCE_EXCEEDS_MIN"}

\* C21: every finding validate_db returns has level WARN if its code is
\* CLAIM_NO_EMBEDDING or CHAIN_CREDENCE_EXCEEDS_MIN and level ERROR otherwise.
C21_OnlyEmbeddingAndExceedsMinAreWarnings ==
    Validated =>
        \A i \in 1..Len(last.findings) :
            last.findings[i].level =
                IF last.findings[i].code \in WARN_CODES THEN "WARN" ELSE "ERROR"

\* validate_db has returned both warnings next to a range error and a referential one
C21_Witness ==
    /\ Validated
    /\ HasCode(last.findings, "CLAIM_NO_EMBEDDING")
    /\ HasCode(last.findings, "CHAIN_CREDENCE_EXCEEDS_MIN")
    /\ HasCode(last.findings, "CHAIN_CREDENCE_INVALID")
    /\ HasCode(last.findings, "CHAIN_CLAIM_MISSING")

(***************************************************************************)
(* validate_db on snapshots with up to seven [P] claims.                   *)
(***************************************************************************)
TECH10 == <<"T","E","C","H","-","2","0","2","6","-","0","1","0">>
TECH999 == <<"T","E","C","H","-","2","0","2","5","-","9","9","9">>
AI1 == <<"A","I","-","2","0","2","6","-","0","0","1">>
GOV1 == <<"G","O","V","-","2","0","2","6","-","0","0","1">>
TE1 == <<"T","E","-","2","0","2","6","-","0","0","1">>
\* the order the rows are stored in
PredictionClaimIds == <<TECH10, GOV2, TE1, TECH1, AI1, TECH999, GOV1>>
\* per claim id: not stored, a [P] claim without a prediction record, a [P] claim with
\* one, or a claim of another type
PredictionStores == [1..Len(PredictionClaimIds) -> {"absent", "missing", "recorded"}]
                        \cup [1..Len(PredictionClaimIds) -> {"missing", "[F]"}]
InitMissing ==
    \E store \in PredictionStores :
        LET stored == SelectSeq([i \in 1..Len(PredictionClaimIds) |-> i],
                                LAMBDA i : store[i] # "absent")
            recorded == SelectSeq(stored, LAMBDA i : store[i] = "recorded")
        IN  InitLoaded(
                [claims |-> [k \in 1..Len(stored) |->
                                [Claim(PredictionClaimIds[stored[k]],
                                       IF store[stored[k]] = "[F]" THEN "[F]" ELSE "[P]",
                                       <<"s1">>) EXCEPT !.embedding = TRUE]],
                 sources |-> <<Source("s1", [k \in 1..Len(stored) |->
                                                PredictionClaimIds[stored[k]]])>>,
                 chains |-> <<>>,
                 predictions |-> [k \in 1..Len(recorded) |->
                                     Prediction(PredictionClaimIds[recorded[k]], "s1", "[P?]")],
                 analysis_logs |-> <<>>,
                 tables |-> ALL_TABLES])
NextMissing == ValidateDb
SpecMissing == InitMissing /\ [][NextMissing]_vars

\* the stored [P] claims without a prediction record
MissingIds ==
    {claims[j].id : j \in {k \in 1..Len(claims) :
        claims[k].type = "[P]" /\ ~HasPrediction(predictions, claims[k].id)}}
MissingFinding ==
    last.findings[CHOOSE i \in 1..Len(last.findings) :
                      last.findings[i].code = "PREDICTIONS_MISSING"]
\* ids is the first min(5, n) of the n missing ids in sorted order
FirstFiveSorted(ids) ==
    /\ Len(ids) = (IF Cardinality(MissingIds) < 5 THEN Cardinality(MissingIds) ELSE 5)
    /\ \A i \in 1..Len(ids) : ids[i] \in MissingIds
    /\ \A i \in 1..(Len(ids) - 1) : StrLess(ids[i], ids[i+1])
    /\ \A x \in MissingIds \ SeqSet(ids) : \A i \in 1..Len(ids) : StrLess(ids[i], x)

\* C22: the PREDICTIONS_MISSING message states the number of [P] claims without a
\* prediction record, lists at most the first 5 of their ids in sorted order, and
\* ends with the truncation suffix only when more than 5 ids are missing.
C22_MessageCountsListsFiveAndMarksTruncation ==
    (Validated /\ MissingIds # {}) =>
        /\ CountCode(last.findings, "PREDICTIONS_MISSING") = 1
        /\ MissingFinding.message[1] = Cardinality(MissingIds)
        /\ FirstFiveSorted(MissingFinding.message[2])
        /\ (MissingFinding.message[3] = "...") <=> Cardinality(MissingIds) > 5

(***************************************************************************)
(* validate_file on documents with one table that has a Layer column.      *)
(***************************************************************************)
LAYER_PLACEHOLDER == <<"A","S","S","E","R","T","E","D","/","L","A","W","F","U","L","/","P","R","A","C","T","I","C","E","D","/","E","F","F","E","C","T">>
INVALID_LAYER == <<"I","N","V","A","L","I","D","_","L","A","Y","E","R">>
LayerHeaders ==
    { << <<"I","D">>, <<" ","L","a","y","e","r"," ">>, <<"C","l","a","i","m">> >>,
      << <<"I","D">>, <<"L","A","Y","E","R">>, <<"C","l","a","i","m">> >>,
      << <<"L","a","y","e","r">>, <<"I","D">>, <<"C","l","a","i","m">> >>,
      << <<"I","D">>, <<"T","y","p","e">>, <<"C","l","a","i","m">> >> }
LayerCells ==
    { <<"A","S","S","E","R","T","E","D">>, <<" ","L","A","W","F","U","L"," ">>, <<"P","R","A","C","T","I","C","E","D">>,
      <<"E","F","F","E","C","T">>, <<"N","/","A">>, LAYER_PLACEHOLDER,
      INVALID_LAYER, <<"a","s","s","e","r","t","e","d">>, <<"n","/","a">>, <<"-">>, <<>> }
\* a data row with value in the column the header names Layer (the second without one)
LayerRow(header, value) ==
    IF LowerStr(Strip(header[1])) = <<"l","a","y","e","r">>
    THEN R(<< value, TECH1, <<"T","e","s","t"," ","c","l","a","i","m">> >>)
    ELSE R(<< TECH1, value, <<"T","e","s","t"," ","c","l","a","i","m">> >>)
\* what stands between the first and the second data row
LayerGaps == { <<>>, <<BLANK>>, <<T(<<"N","o","t","e","s">>)>> }
LayerDoc(header, cell1, gap, cell2) ==
    << H(3, <<"C","l","a","i","m"," ","S","u","m","m","a","r","y">>), BLANK,
       R(header), Separator(3), LayerRow(header, cell1) >>
    \o gap \o << LayerRow(header, cell2), BLANK >>
InitLayer ==
    /\ InitStore
    /\ \E header \in LayerHeaders, cell1 \in LayerCells, gap \in LayerGaps, cell2 \in LayerCells,
          profile_ \in {"full", "quick"} :
          InitDocWith(LayerDoc(header, cell1, gap, cell2), DATA_PATH, profile_)
NextLayer == \E rigor \in BOOLEAN : ValidateFile(rigor)
SpecLayer == InitLayer /\ [][NextLayer]_vars

\* the first line of the run of table rows that line j is in
TableStart(j) == Least({i \in 1..j : \A k \in i..j : doc[k].k = "r"})
\* the column the header row of line j's table names Layer, 0 without one
LayerColumn(j) ==
    LET header == doc[TableStart(j)].cells
        named == {c \in 1..Len(header) : LowerStr(Strip(header[c])) = <<"l","a","y","e","r">>}
    IN  IF named = {} THEN 0 ELSE Least(named)
\* line j is a data row with a cell under a Layer column
HasLayerCell(j) ==
    /\ doc[j].k = "r"
    /\ j > TableStart(j)
    /\ ~_is_table_separator_row(doc[j].cells)
    /\ LayerColumn(j) # 0
    /\ LayerColumn(j) <= Len(doc[j].cells)
LayerCell(j) == Strip(doc[j].cells[LayerColumn(j)])
AllowedLayerCell(value) ==
    value \in VALID_LAYER_VALUES \cup {<<"N","/","A">>, LAYER_PLACEHOLDER}
\* the findings the claim gives the document, in line order
ExpectedLayerFindings ==
    Concat([j \in 1..Len(doc) |->
        Opt(HasLayerCell(j) /\ ~AllowedLayerCell(LayerCell(j)),
            Msg("invalid_layer", <<>>, LayerCell(j)))])
LayerFindings(rigor) ==
    SelectSeq(result[rigor].errors \o result[rigor].warnings,
              LAMBDA w : w.kind = "invalid_layer")

\* C23: in a full-profile document every data cell under a Layer column that is not
\* ASSERTED, LAWFUL, PRACTICED, EFFECT, N/A or the placeholder text gets one
\* 'Invalid Layer value' finding quoting it, an allowed cell gets none, and rows after
\* a blank or non-pipe line are under no Layer column.
C23_OneFindingPerDisallowedLayerCell ==
    \A rigor \in DOMAIN result :
        result[rigor].profile = "full" => LayerFindings(rigor) = ExpectedLayerFindings

(***************************************************************************)
(* validate_yaml: the legacy YAML files.                                   *)
(***************************************************************************)
\* what yaml.safe_load gives for a scalar: None (also an absent key), a number (in
\* hundredths), a bool, nan, or a str (v its length)
YNone == [t |-> "None", v |-> 0]
YNumber(hundredths) == [t |-> "number", v |-> hundredths]
YBool(b) == [t |-> "bool", v |-> IF b THEN 100 ELSE 0]
YNaN == [t |-> "nan", v |-> 1]
YStr(len) == [t |-> "str", v |-> len]
\* the truth value of a scalar: None, 0, 0.0, False and "" are false
Truthy(value) == value.t # "None" /\ value.v # 0
\* a or b
Or(a, b) == IF Truthy(a) THEN a ELSE b
\* _is_probability with its isinstance test: a bool is an int
_is_probability_Any(value) ==
    /\ value.t # "None"
    /\ value.t \in {"number", "bool"}
    /\ 0 <= value.v /\ value.v <= 100

\* the body of the claims loop of validate_yaml
ValidateYamlClaim(claim_id, claim, claim_ids, source_ids) ==
    IF ~CLAIM_ID_RE(claim_id)
    THEN <<Finding("ERROR", "CLAIM_ID_FORMAT", <<claim_id>>)>>
    ELSE IF ~claim.is_dict
    THEN <<Finding("ERROR", "CLAIM_NOT_DICT", <<claim_id>>)>>
    ELSE Opt(claim.type \notin ALLOWED_CLAIM_TYPES,
             Finding("ERROR", "CLAIM_TYPE_INVALID", <<claim_id, claim.type>>))
      \o Opt(claim.evidence_level \notin ALLOWED_EVIDENCE_LEVELS,
             Finding("ERROR", "CLAIM_EVIDENCE_INVALID", <<claim_id, claim.evidence_level>>))
      \o Opt(~_is_probability_Any(Or(claim.credence, claim.confidence)),
             Finding("ERROR", "CLAIM_CREDENCE_INVALID",
                     <<claim_id, Or(claim.credence, claim.confidence)>>))
      \o FlatMap(claim.source_ids, LAMBDA sid :
             Opt(sid \notin source_ids,
                 Finding("ERROR", "CLAIM_SOURCE_MISSING", <<claim_id, sid>>)))
      \o FlatMap(REL_FIELDS, LAMBDA rel :
             FlatMap(claim[rel], LAMBDA ref :
                 Opt(ref \notin claim_ids,
                     Finding("ERROR", "CLAIM_REL_MISSING", <<claim_id, rel, ref>>))))

\* the predictions.md part of validate_yaml
ValidateYamlPredictions(repo, claim_ids) ==
    LET p_claims == {repo.claims[i].id : i \in {k \in 1..Len(repo.claims) :
                                                  repo.claims[k].type = "[P]"}}
        missing == p_claims \ repo.pred_claim_ids
        unknown == repo.pred_claim_ids \ claim_ids
    IN  Opt(missing # {},
            Finding("ERROR", "PREDICTIONS_MISSING", <<Take(sorted(missing), 5), "...">>))
     \o Opt(unknown # {},
            Finding("ERROR", "PREDICTIONS_UNKNOWN", <<sorted(unknown)>>))

\* validate_yaml(repo_root): the findings, or the exception it ends with
validate_yaml(repo) ==
    IF repo.registry = "FileNotFoundError"
    THEN Returned(<<Finding("ERROR", "CLAIMS_MISSING", <<"claims/registry.yaml">>)>>, <<>>)
    ELSE IF repo.registry = "ValueError"
    THEN Returned(<<Finding("ERROR", "CLAIMS_PARSE", <<"claims/registry.yaml">>)>>, <<>>)
    ELSE IF repo.sources_yaml = "FileNotFoundError"
    THEN Returned(<<Finding("ERROR", "SOURCES_MISSING", <<"reference/sources.yaml">>)>>, <<>>)
    ELSE IF repo.sources_yaml = "ValueError"
    THEN Returned(<<Finding("ERROR", "SOURCES_PARSE", <<"reference/sources.yaml">>)>>, <<>>)
    ELSE IF repo.predictions_md /\ \E i \in 1..Len(repo.claims) : ~repo.claims[i].is_dict
    THEN Raised("AttributeError", <<>>)
    ELSE LET claim_ids == {repo.claims[i].id : i \in 1..Len(repo.claims)}
             source_ids == {repo.sources[i].id : i \in 1..Len(repo.sources)}
         IN  Returned(
                 FlatMap(repo.claims, LAMBDA c :
                     ValidateYamlClaim(c.id, c, claim_ids, source_ids))
                 \o FlatMap(repo.sources, LAMBDA source :
                     FlatMap(source.claims_extracted, LAMBDA claim_id :
                         Opt(claim_id \notin claim_ids,
                             Finding("ERROR", "SOURCE_CLAIM_MISSING", <<source.id, claim_id>>))))
                 \o FlatMap(repo.chains, LAMBDA chain :
                     IF ~CHAIN_ID_RE(chain.id)
                     THEN <<Finding("ERROR", "CHAIN_ID_FORMAT", <<chain.id>>)>>
                     ELSE FlatMap(chain.claims, LAMBDA claim_id :
                              Opt(claim_id \notin claim_ids,
                                  Finding("ERROR", "CHAIN_CLAIM_MISSING", <<chain.id, claim_id>>))))
                 \o (IF repo.predictions_md THEN ValidateYamlPredictions(repo, claim_ids)
                     ELSE <<>>),
                 <<>>)

ValidateYaml ==
    /\ last' = [op |-> "validate_yaml", arg |-> <<>>, ret |-> validate_yaml(repo_root).ret,
                findings |-> validate_yaml(repo_root).findings,
                effects |-> validate_yaml(repo_root).effects]
    /\ UNCHANGED <<claims, sources, chains, predictions, analysis_logs, tables, env, docVars>>

\* an entry of the claims mapping of registry.yaml
YamlClaim(id, type, credence, confidence) ==
    [id |-> id, is_dict |-> TRUE, type |-> type, evidence_level |-> "E2",
     credence |-> credence, confidence |-> confidence, source_ids |-> <<"s1">>,
     supports |-> <<>>, contradicts |-> <<>>, depends_on |-> <<>>, modified_by |-> <<>>]
YamlScalars ==
    {YNone, YNumber(0), YNumber(50), YNumber(100), YNumber(101), YNumber(200), YNumber(-1),
     YBool(TRUE), YBool(FALSE), YNaN, YStr(4), YStr(0)}
\* a second entry of the mapping: none, one with a malformed id, one that is no dict,
\* one that cites what is not there
OtherYamlClaims ==
    { <<>>,
      <<YamlClaim(BAD1, "[F]", YNumber(200), YNone)>>,
      <<[YamlClaim(GOV2, "[F]", YNumber(200), YNone) EXCEPT !.is_dict = FALSE]>>,
      <<[YamlClaim(GOV2, "[X?]", YNumber(50), YNone) EXCEPT
            !.evidence_level = "E9", !.source_ids = <<"s9">>, !.supports = <<FOO1>>]>> }
YamlFiles ==
    { [registry |-> "ok", sources_yaml |-> "ok"],
      [registry |-> "FileNotFoundError", sources_yaml |-> "ok"],
      [registry |-> "ValueError", sources_yaml |-> "ok"],
      [registry |-> "ok", sources_yaml |-> "FileNotFoundError"],
      [registry |-> "ok", sources_yaml |-> "ValueError"] }
InitYaml ==
    /\ InitStore
    /\ doc = <<>>
    /\ docPath = <<>>
    /\ profile = "none"
    /\ result = <<>>
    /\ factual = [done |-> FALSE, warnings |-> <<>>]
    /\ extraction = NoExtraction
    /\ \E credence \in YamlScalars, confidence \in YamlScalars, type \in {"[F]", "[P]"},
          other \in OtherYamlClaims, files \in YamlFiles, predictions_md \in BOOLEAN :
          repo_root = [registry |-> files.registry,
                       claims |-> <<YamlClaim(TECH1, type, credence, confidence)>> \o other,
                       chains |-> <<[id |-> CHAIN1, claims |-> <<TECH1, FOO1>>],
                                    [id |-> BADCHAIN, claims |-> <<FOO1>>]>>,
                       sources_yaml |-> files.sources_yaml,
                       sources |-> <<[id |-> "s1", claims_extracted |-> <<TECH1, FOO1>>]>>,
                       predictions_md |-> predictions_md,
                       pred_claim_ids |-> IF predictions_md THEN {GOV2} ELSE {}]
NextYaml == ValidateYaml
SpecYaml == InitYaml /\ [][NextYaml]_vars

\* the value the claim speaks of: credence, the legacy confidence when credence is absent
CredenceValue(claim) == IF claim.credence.t = "None" THEN claim.confidence ELSE claim.credence
\* a number x with 0.0 <= x <= 1.0
NumberInUnitInterval(value) ==
    value.t \in {"number", "bool"} /\ 0 <= value.v /\ value.v <= 100
CredenceFindings(claim_id) ==
    Cardinality({i \in 1..Len(last.findings) :
        /\ last.findings[i].code = "CLAIM_CREDENCE_INVALID"
        /\ last.findings[i].message[1] = claim_id})

\* C24: validate_yaml emits CLAIM_CREDENCE_INVALID for a claim exactly when its
\* credence value (the legacy confidence when credence is absent) is not a number x
\* with 0.0 <= x <= 1.0; 0 and 1 are accepted without a finding.
C24_CredenceInvalidIffNotInUnitInterval ==
    (last.op = "validate_yaml" /\ last.ret = "findings"
        /\ repo_root.registry = "ok" /\ repo_root.sources_yaml = "ok") =>
        \A i \in 1..Len(repo_root.claims) :
            (CLAIM_ID_RE(repo_root.claims[i].id) /\ repo_root.claims[i].is_dict) =>
                CredenceFindings(repo_root.claims[i].id) =
                    (IF NumberInUnitInterval(CredenceValue(repo_root.claims[i])) THEN 0 ELSE 1)

(***************************************************************************)
(* add_claim, update_claim and delete_claim, with updates that set the id. *)
(***************************************************************************)
IdUpdates == {[id |-> id] : id \in ClaimIds}
                \cup {[type |-> "[P]"], [source_ids |-> <<"s1">>], [source_ids |-> <<>>]}
NextDup ==
    \/ AddSource(Source("s1", <<>>))
    \/ \E claim \in AddedClaims : AddClaim(claim)
    \/ \E id \in ClaimIds, u \in IdUpdates : UpdateClaimFields(id, u)
    \/ \E id \in ClaimIds : DeleteClaim(id)
SpecDup == Init /\ [][NextDup]_vars

\* add_claim with an id that is stored raises ValueError and changes no table
AddStoredIdRaises ==
    \A claim \in AddedClaims :
        (AddClaim(claim) /\ HasId(claims, claim.id)) =>
            /\ last'.ret = "ValueError"
            /\ UNCHANGED <<claims, sources, predictions>>
AtMostOneRowPerId ==
    \A i, j \in 1..Len(claims) : claims[i].id = claims[j].id => i = j

\* C25: add_claim with an id that is already stored raises ValueError and leaves the
\* claims, sources and predictions tables unchanged, so after any sequence of add_claim,
\* update_claim and delete_claim calls no two claim rows have the same id.
C25_DuplicateAddRaisesSoIdsStayUnique ==
    [][AddStoredIdRaises]_vars /\ []AtMostOneRowPerId

(***************************************************************************)
(* The repair command.                                                     *)
(***************************************************************************)
\* sorted(list of str)
RECURSIVE sorted_list(_)
sorted_list(seq) ==
    IF seq = <<>> THEN <<>>
    ELSE LET least == CHOOSE i \in 1..Len(seq) : \A j \in 1..Len(seq) : ~StrLess(seq[j], seq[i])
         IN  <<seq[least]>> \o sorted_list(SubSeq(seq, 1, least - 1)
                                           \o SubSeq(seq, least + 1, Len(seq)))
\* expected_by_source.get(source_id, set())
expected_by_source(claims_cache, source_id) ==
    {claims_cache[i].id : i \in {k \in 1..Len(claims_cache) :
        claims_cache[k].id # <<>> /\ InSeq(source_id, claims_cache[k].source_ids)}}
\* the sources loop counts this row
SourceToUpdate(db, source) ==
    /\ source.id # ""
    /\ sorted_list(source.claims_extracted) # sorted(expected_by_source(db.claims, source.id))

\* repair_backlinks adding the expected claims to the list instead of replacing it
repair_backlinks_Merging(db, dry_run) ==
    [sources |->
        IF dry_run THEN db.sources
        ELSE [i \in 1..Len(db.sources) |->
                IF \E j \in 1..Len(db.sources) :
                      db.sources[j].id = db.sources[i].id /\ SourceToUpdate(db, db.sources[j])
                THEN [db.sources[i] EXCEPT !.claims_extracted =
                         @ \o sorted(expected_by_source(db.claims, db.sources[i].id))]
                ELSE db.sources[i]],
     updated_sources |->
        Cardinality({i \in 1..Len(db.sources) : SourceToUpdate(db, db.sources[i])})]
\* "if do_backlinks": every row of a source id that has a row to update gets the
\* expected list (update where id = source_id)
repair_backlinks(db, dry_run) ==
    [sources |->
        IF dry_run THEN db.sources
        ELSE [i \in 1..Len(db.sources) |->
                IF \E j \in 1..Len(db.sources) :
                      db.sources[j].id = db.sources[i].id /\ SourceToUpdate(db, db.sources[j])
                THEN [db.sources[i] EXCEPT !.claims_extracted =
                         sorted(expected_by_source(db.claims, db.sources[i].id))]
                ELSE db.sources[i]],
     updated_sources |->
        Cardinality({i \in 1..Len(db.sources) : SourceToUpdate(db, db.sources[i])})]

\* "if do_predictions": the loop over claims_cache, with the predictions table so far
\* and the stubs counted so far
RECURSIVE repair_predictions(_, _, _, _)
repair_predictions(claims_cache, tbl, created_prediction_stubs, dry_run) ==
    IF claims_cache = <<>>
    THEN [predictions |-> tbl, created_prediction_stubs |-> created_prediction_stubs]
    ELSE IF \/ Head(claims_cache).id = <<>>
            \/ Head(claims_cache).type # "[P]"
            \/ HasPrediction(tbl, Head(claims_cache).id)
    THEN repair_predictions(Tail(claims_cache), tbl, created_prediction_stubs, dry_run)
    ELSE IF dry_run
    THEN repair_predictions(Tail(claims_cache), tbl, created_prediction_stubs + 1, dry_run)
    ELSE repair_predictions(
             Tail(claims_cache),
             _ensure_prediction_for_claim(tbl, Head(claims_cache)),
             IF HasPrediction(_ensure_prediction_for_claim(tbl, Head(claims_cache)),
                              Head(claims_cache).id)
             THEN created_prediction_stubs + 1 ELSE created_prediction_stubs,
             dry_run)

\* rc-db repair [--backlinks] [--predictions] [--dry-run]; ret is the two numbers it prints
repair(db, backlinks, predictions_, dry_run) ==
    LET do_backlinks == backlinks \/ (~backlinks /\ ~predictions_)
        do_predictions == predictions_ \/ (~backlinks /\ ~predictions_)
    IN  [db |-> [db EXCEPT
                    !.sources = IF do_backlinks THEN repair_backlinks(db, dry_run).sources
                                ELSE @,
                    !.predictions =
                        IF do_predictions
                        THEN repair_predictions(db.claims, db.predictions, 0, dry_run).predictions
                        ELSE @],
         ret |-> [updated_sources |->
                      IF do_backlinks THEN repair_backlinks(db, dry_run).updated_sources
                      ELSE 0,
                  created_prediction_stubs |->
                      IF do_predictions
                      THEN repair_predictions(db.claims, db.predictions, 0, dry_run)
                               .created_prediction_stubs
                      ELSE 0]]

Repair(backlinks, predictions_, dry_run) ==
    /\ sources' = repair(DB, backlinks, predictions_, dry_run).db.sources
    /\ predictions' = repair(DB, backlinks, predictions_, dry_run).db.predictions
    /\ last' = [op |-> "repair",
                arg |-> [backlinks |-> backlinks, predictions |-> predictions_,
                         dry_run |-> dry_run],
                ret |-> "ok", findings |-> <<>>, effects |-> <<>>,
                updated_sources |->
                    repair(DB, backlinks, predictions_, dry_run).ret.updated_sources,
                created_prediction_stubs |->
                    repair(DB, backlinks, predictions_, dry_run).ret.created_prediction_stubs]
    /\ UNCHANGED <<claims, chains, analysis_logs, tables, env, docVars>>

\* stores to repair: up to two claims, sources s1 and s2 listing claims that cite them,
\* claims that do not, a claim twice or a claim that is not stored, and prediction
\* records for some of the claims
RepairClaims ==
    { c1 \o c2 :
        c1 \in {<<>>} \cup {<<[Claim(TECH1, type, l) EXCEPT !.embedding = TRUE]>> :
                               type \in {"[F]", "[P]"},
                               l \in {<<>>, <<"s1">>, <<"s2", "s1">>}},
        c2 \in {<<>>} \cup {<<[Claim(GOV2, type, l) EXCEPT !.embedding = TRUE]>> :
                               type \in {"[F]", "[P]"}, l \in {<<>>, <<"s2">>}} }
RepairSources ==
    { <<Source("s1", l1)>> \o s2 :
        l1 \in {<<>>, <<TECH1>>, <<TECH1, GOV2>>, <<TECH1, TECH1>>, <<FOO1>>},
        s2 \in {<<>>, <<Source("s2", <<>>)>>, <<Source("s2", <<TECH1, GOV2>>)>>} }
RepairPredictions ==
    { <<>>, <<Prediction(TECH1, "s1", "[P?]")>>, <<Prediction(GOV2, "s2", "[P?]")>> }
InitRepair ==
    \E c \in RepairClaims, s \in RepairSources, p \in RepairPredictions :
        InitLoaded([claims |-> c, sources |-> s, chains |-> <<>>, predictions |-> p,
                    analysis_logs |-> <<>>, tables |-> ALL_TABLES])
NextRepair ==
    \/ \E backlinks \in BOOLEAN, predictions_ \in BOOLEAN, dry_run \in BOOLEAN :
          Repair(backlinks, predictions_, dry_run)
    \/ ValidateDb
SpecRepair == InitRepair /\ [][NextRepair]_vars

\* the step is a non-dry-run repair right after a non-dry-run repair with the same options
SecondRepair ==
    /\ last.op = "repair"
    /\ ~last.arg.dry_run
    /\ last'.op = "repair"
    /\ Repair(last.arg.backlinks, last.arg.predictions, FALSE)

\* C26: a non-dry-run repair run right after a non-dry-run repair with the same options
\* leaves every table as it is and reports 0 updated sources and 0 created stubs.
C26_SecondRepairChangesNothing ==
    [][SecondRepair =>
         /\ UNCHANGED <<claims, sources, chains, predictions, analysis_logs, tables>>
         /\ last'.updated_sources = 0
         /\ last'.created_prediction_stubs = 0]_vars
\* a repair that followed one which rewrote a source and created a stub
C26_Witness ==
    /\ last.op = "repair" /\ ~last.arg.dry_run /\ ~last.arg.backlinks /\ ~last.arg.predictions
    /\ last.updated_sources = 0 /\ last.created_prediction_stubs = 0
    /\ sources = <<Source("s1", <<TECH1>>), Source("s2", <<GOV2, TECH1>>)>>
    /\ predictions = <<Prediction(TECH1, "s2", "[P?]")>>


\* the step is validate_db right after a non-dry-run repair of backlinks and predictions
ValidateAfterRepair ==
    /\ last.op = "repair"
    /\ ~last.arg.dry_run
    /\ last.arg.backlinks = last.arg.predictions
    /\ last'.op = "validate_db"
    /\ ValidateDb
REPAIR_CODES == {"SOURCE_CLAIM_NOT_LISTED", "SOURCE_BACKLINK_MISSING", "PREDICTIONS_MISSING"}

\* C27: validate_db run right after a non-dry-run repair with default options reports
\* none of SOURCE_CLAIM_NOT_LISTED, SOURCE_BACKLINK_MISSING and PREDICTIONS_MISSING.
C27_NoRepairableFindingAfterRepair ==
    [][ValidateAfterRepair =>
         \A code \in REPAIR_CODES : ~HasCode(last'.findings, code)]_vars


(***************************************************************************)
(* Sources added empty before a claim cites them and never written         *)
(* directly; claims added, updated and deleted.                            *)
(***************************************************************************)
Cited(source_id) == \E i \in 1..Len(claims) : InSeq(source_id, claims[i].source_ids)
BacklinkUpdates ==
    IdUpdates \cup {[source_ids |-> <<"s2", "s1">>], [source_ids |-> <<"s2">>]}
NextBack ==
    \/ \E id \in {"s1", "s2"} : ~Cited(id) /\ AddSource(Source(id, <<>>))
    \/ \E claim \in AddedClaims : AddClaim(claim)
    \/ \E id \in ClaimIds, u \in BacklinkUpdates : UpdateClaimFields(id, u)
    \/ \E id \in ClaimIds : DeleteClaim(id)
    \/ ValidateDb
SpecBack == Init /\ [][NextBack]_vars

BACKLINK_CODES == {"SOURCE_CLAIM_NOT_LISTED", "SOURCE_BACKLINK_MISSING", "SOURCE_CLAIM_MISSING"}

\* C28: with every source added with an empty claims_extracted list before a claim
\* cites it and never written directly, validate_db after any add_claim, update_claim
\* and delete_claim calls reports none of SOURCE_CLAIM_NOT_LISTED,
\* SOURCE_BACKLINK_MISSING and SOURCE_CLAIM_MISSING.
C28_NoBacklinkFindingThroughClaimOperations ==
    Validated => \A code \in BACKLINK_CODES : ~HasCode(last.findings, code)


\* the last call is an add_claim or update_claim that returned successfully for a claim
\* which is now a [P] claim
WrotePredictionClaim ==
    /\ last.op \in {"add_claim", "update_claim"}
    /\ last.ret \in {"ok", "True"}
    /\ HasId(claims, last.arg)
    /\ RowById(claims, last.arg).type = "[P]"
\* validate_db lists the claim under PREDICTIONS_MISSING
ListedAsMissing(findings, claim_id) ==
    \E i \in 1..Len(findings) :
        /\ findings[i].code = "PREDICTIONS_MISSING"
        /\ InSeq(claim_id, findings[i].message[2])

\* C29: after add_claim or update_claim returned successfully for a claim whose type is
\* then [P], a prediction record keyed by the claim's id is stored, and validate_db run
\* right afterwards does not list the claim under PREDICTIONS_MISSING.
C29_PredictionClaimHasRecordAfterWrite ==
    /\ [](WrotePredictionClaim => HasPrediction(predictions, last.arg))
    /\ [][(WrotePredictionClaim /\ last'.op = "validate_db" /\ ValidateDb) =>
             ~ListedAsMissing(last'.findings, last.arg)]_vars


\* the step is a non-dry-run repair right after a dry run with the same options
RepairAfterDryRun ==
    /\ last.op = "repair"
    /\ last.arg.dry_run
    /\ last'.op = "repair"
    /\ Repair(last.arg.backlinks, last.arg.predictions, FALSE)

\* C30: the numbers of sources to update and stubs to create that a dry run prints
\* equal the numbers a non-dry-run repair started from that same state reports, and
\* the dry run changes no table.
C30_DryRunPrintsWhatRepairDoes ==
    /\ [][(\E backlinks \in BOOLEAN, predictions_ \in BOOLEAN :
              last'.op = "repair" /\ Repair(backlinks, predictions_, TRUE)) =>
             UNCHANGED <<claims, sources, chains, predictions, analysis_logs, tables>>]_vars
    /\ [][RepairAfterDryRun =>
             /\ last'.updated_sources = last.updated_sources
             /\ last'.created_prediction_stubs = last.created_prediction_stubs]_vars

====
